---- MODULE Spec2Model ----
(***************************************************************************)
(* A model of the Scala bindings generator (crates/scala).                 *)
(*                                                                         *)
(* Text is modelled character by character: a string is a sequence of      *)
(* one-character strings, so that case conversion, qualification, line     *)
(* splitting and prefix tests are computed the way the code computes them. *)
(* A panic (expect/panic!/unreachable!) is the value PANIC, which every    *)
(* formatting step propagates.                                             *)
(***************************************************************************)
EXTENDS Integers, Sequences, FiniteSets, TLC

VARIABLES
    current_interface,  \* ScalaContext.current_interface : Option<InterfaceId>
    imports,            \* Scala.imports : HashSet<InterfaceId>
    exports,            \* Scala.exports : HashSet<InterfaceId>
    has_world_imports,  \* Scala.has_world_imports
    has_world_exports,  \* Scala.has_world_exports
    files,              \* the Files::push calls made so far: <<path, content>>
    status,             \* "running" | "finished" | "error" (Err returned) | "panicked"
    calls,              \* number of generator calls made (bounded by MaxCalls)
    renderLog,          \* history: [scope, id, is_import, cur] of every scope rendered
    out                 \* the last call on the context API and what it returned

vars == <<current_interface, imports, exports, has_world_imports,
          has_world_exports, files, status, calls, renderLog, out>>

-----------------------------------------------------------------------------
(* Bounds of the model *)

MaxCalls == 2
MaxFlags == 33

-----------------------------------------------------------------------------
(* Strings *)

\* The character U+0060 (a string literal cannot hold it).
BQ == "BACKTICK"

None == <<>>
Some(v) == <<v>>
IsSome(o) == o /= <<>>
Unwrap(o) == o[1]

Range(s) == {s[i] : i \in 1..Len(s)}

RECURSIVE Concat(_)
Concat(ss) == IF ss = <<>> THEN <<>> ELSE Head(ss) \o Concat(Tail(ss))

\* The result of a call that panicked.
PANIC == <<"PANIC">>

\* format!/write! of the parts, in order; a panic while evaluating a part
\* unwinds through the caller.
Fmt(parts) ==
    IF \E i \in 1..Len(parts) : parts[i] = PANIC THEN PANIC ELSE Concat(parts)

\* [String]::join(sep)
RECURSIVE Join(_, _)
Join(segs, sep) ==
    IF segs = <<>> THEN <<>>
    ELSE IF Len(segs) = 1 THEN segs[1]
    ELSE segs[1] \o sep \o Join(Tail(segs), sep)

\* str::split(ch): the pieces between the occurrences of ch (always >= 1 piece)
\* seps holds the positions of ch in increasing order
SplitAt(s, seps) ==
    [k \in 1..(Len(seps) + 1) |->
        SubSeq(s, (IF k = 1 THEN 0 ELSE seps[k - 1]) + 1,
                  (IF k > Len(seps) THEN Len(s) + 1 ELSE seps[k]) - 1)]

Split(s, ch) ==
    SplitAt(s, SelectSeq([i \in 1..Len(s) |-> i], LAMBDA i : s[i] = ch))

\* str::lines(): split at line feeds, without a final empty line
DropLastEmpty(parts) ==
    IF parts[Len(parts)] = <<>> THEN SubSeq(parts, 1, Len(parts) - 1) ELSE parts
\* a line that ended in a line feed loses one carriage return before it
StripCR(l) ==
    IF l /= <<>> /\ l[Len(l)] = "\r" THEN SubSeq(l, 1, Len(l) - 1) ELSE l
TerminatedLines(parts) ==
    [k \in 1..Len(parts) |-> IF k < Len(parts) THEN StripCR(parts[k]) ELSE parts[k]]
Lines(s) == DropLastEmpty(TerminatedLines(Split(s, "\n")))

StartsWith(s, p) == Len(s) >= Len(p) /\ SubSeq(s, 1, Len(p)) = p

\* usize / number Display
DigitChars == <<"0","1","2","3","4","5","6","7","8","9">>
RECURSIVE Decimal(_)
Decimal(n) ==
    IF n < 10 THEN <<DigitChars[n + 1]>>
    ELSE Decimal(n \div 10) \o <<DigitChars[(n % 10) + 1]>>

LowerChars == <<"a","b","c","d","e","f","g","h","i","j","k","l","m","n","o","p","q","r","s","t","u","v","w","x","y","z">>
UpperChars == <<"A","B","C","D","E","F","G","H","I","J","K","L","M","N","O","P","Q","R","S","T","U","V","W","X","Y","Z">>

\* char::is_lowercase / is_uppercase / is_alphanumeric, as one class per character
CharClass(c) ==
    IF c \in Range(LowerChars) THEN "lower"
    ELSE IF c \in Range(UpperChars) THEN "upper"
    ELSE IF c \in Range(DigitChars) THEN "digit"
    ELSE "other"

\* The position of c in chars, 0 when it is not there.
IndexIn(c, chars) ==
    IF \E i \in 1..Len(chars) : chars[i] = c
    THEN CHOOSE i \in 1..Len(chars) : chars[i] = c ELSE 0
MapChar(c, i, to) == IF i = 0 THEN c ELSE to[i]

ToUpperChar(c) == MapChar(c, IndexIn(c, LowerChars), UpperChars)
ToLowerChar(c) == MapChar(c, IndexIn(c, UpperChars), LowerChars)

ToLower(w) == [i \in 1..Len(w) |-> ToLowerChar(w[i])]
Capitalize(w) ==
    [i \in 1..Len(w) |-> IF i = 1 THEN ToUpperChar(w[i]) ELSE ToLowerChar(w[i])]

-----------------------------------------------------------------------------
(* heck: the word splitting shared by the three case conversions.          *)
(* Words are the maximal alphanumeric runs, split further where a          *)
(* lower-case letter is followed by an upper-case one, and before the last *)
(* upper-case letter of an acronym that a lower-case letter follows.       *)
(* A run is a sequence of <<character, class>> pairs.                      *)

Classified(s) == [i \in 1..Len(s) |-> <<s[i], CharClass(s[i])>>]

NextMode(cls, mode) == IF cls \in {"lower", "upper"} THEN cls ELSE mode

WordOf(init) == IF init = <<>> THEN <<>> ELSE <<init>>

\* mode: "boundary" | "lower" | "upper"
RECURSIVE RunWords(_, _, _)
RunWords(run, init, mode) ==
    \* run: the rest of the alphanumeric run; init: the word collected so far
    IF run = <<>> THEN WordOf(init)
    ELSE IF Len(run) = 1 THEN <<Append(init, run[1][1])>>
    ELSE IF NextMode(run[1][2], mode) = "lower" /\ run[2][2] = "upper"
         THEN <<Append(init, run[1][1])>> \o RunWords(Tail(run), <<>>, "boundary")
    ELSE IF mode = "upper" /\ run[1][2] = "upper" /\ run[2][2] = "lower"
         THEN WordOf(init) \o RunWords(Tail(run), <<run[1][1]>>, "boundary")
    ELSE RunWords(Tail(run), Append(init, run[1][1]), NextMode(run[1][2], mode))

RECURSIVE AlnumRuns(_, _)
AlnumRuns(s, cur) ==
    IF s = <<>> THEN WordOf(cur)
    ELSE IF s[1][2] /= "other" THEN AlnumRuns(Tail(s), Append(cur, s[1]))
    ELSE WordOf(cur) \o AlnumRuns(Tail(s), <<>>)

RECURSIVE WordsOfRuns(_)
WordsOfRuns(runs) ==
    IF runs = <<>> THEN <<>>
    ELSE RunWords(Head(runs), <<>>, "boundary") \o WordsOfRuns(Tail(runs))

HeckWords(s) == WordsOfRuns(AlnumRuns(Classified(s), <<>>))

SnakeOf(ws) == Join([i \in 1..Len(ws) |-> ToLower(ws[i])], <<"_">>)
PascalOf(ws) == Concat([i \in 1..Len(ws) |-> Capitalize(ws[i])])
LowerCamelOf(ws) ==
    Concat([i \in 1..Len(ws) |-> IF i = 1 THEN ToLower(ws[i]) ELSE Capitalize(ws[i])])

HeckSnake(s) == SnakeOf(HeckWords(s))
HeckPascal(s) == PascalOf(HeckWords(s))
HeckLowerCamel(s) == LowerCamelOf(HeckWords(s))

-----
(* ScalaKeywords *)

Keywords == {
    <<"a","b","s","t","r","a","c","t">>, <<"c","a","s","e">>, <<"c","a","t","c","h">>, <<"c","l","a","s","s">>, <<"d","e","f">>, <<"d","o">>,
    <<"e","l","s","e">>, <<"e","x","t","e","n","d","s">>, <<"f","a","l","s","e">>, <<"f","i","n","a","l">>, <<"f","i","n","a","l","l","y">>, <<"f","o","r">>,
    <<"f","o","r","S","o","m","e">>, <<"i","f">>, <<"i","m","p","l","i","c","i","t">>, <<"i","m","p","o","r","t">>, <<"l","a","z","y">>, <<"m","a","t","c","h">>,
    <<"n","e","w">>, <<"n","u","l","l">>, <<"o","b","j","e","c","t">>, <<"o","v","e","r","r","i","d","e">>, <<"p","a","c","k","a","g","e">>,
    <<"p","r","i","v","a","t","e">>, <<"p","r","o","t","e","c","t","e","d">>, <<"r","e","t","u","r","n">>, <<"s","e","a","l","e","d">>, <<"s","u","p","e","r">>,
    <<"t","h","i","s">>, <<"t","h","r","o","w">>, <<"t","r","a","i","t">>, <<"t","r","u","e">>, <<"t","r","y">>, <<"t","y","p","e">>,
    <<"v","a","l">>, <<"v","a","r">>, <<"w","h","i","l","e">>, <<"w","i","t","h">>, <<"y","i","e","l","d">>,
    <<"e","n","u","m">>, <<"e","x","p","o","r","t">>, <<"g","i","v","e","n">>, <<"t","h","e","n">>,
    <<"a","s">>, <<"d","e","r","i","v","e","s">>, <<"e","n","d">>, <<"e","x","t","e","n","s","i","o","n">>, <<"i","n","f","i","x">>, <<"i","n","l","i","n","e">>,
    <<"o","p","a","q","u","e">>, <<"o","p","e","n">>, <<"t","r","a","n","s","p","a","r","e","n","t">>, <<"u","s","i","n","g">>,
    <<"_">>, <<":">>, <<"=">>, <<"=",">">>, <<"<","-">>, <<"<",":">>, <<"<","%">>, <<">",":">>,
    <<"#">>, <<"@">>,
    <<"e","q","u","a","l","s">>, <<"h","a","s","h","C","o","d","e">>, <<"t","o","S","t","r","i","n","g">>, <<"w","a","i","t">>, <<"n","o","t","i","f","y">>,
    <<"n","o","t","i","f","y","A","l","l">>, <<"c","l","o","n","e">>, <<"f","i","n","a","l","i","z","e">>, <<"g","e","t","C","l","a","s","s">> }

is_keyword(name) == name \in Keywords

escape_keyword(name) ==
    IF is_keyword(name) THEN <<BQ>> \o name \o <<BQ>> ELSE name

to_camel_case(name) == escape_keyword(HeckLowerCamel(name))
to_pascal_case(name) == escape_keyword(HeckPascal(name))
to_snake_case(name) == HeckSnake(name)

\* Opts.base_package of the run
BasePackage == <<"c","o","m",".","e","x","a","m","p","l","e">>
base_package_segments == Split(BasePackage, ".")

-----------------------------------------------------------------------------
(* The resolved schema (wit_parser::Resolve) handed to the generator.      *)
(* Ids are indexes into the arenas Packages, Interfaces and Types.         *)

Prim(k) == [tag |-> "prim", kind |-> k]
TId(i) == [tag |-> "id", id |-> i]
ErrorContext == [tag |-> "error-context"]

PrimKinds == {"bool", "s8", "u8", "s16", "u16", "s32", "u32", "s64", "u64",
              "f32", "f64", "char", "string"}

OwnerInterface(i) == [tag |-> "interface", id |-> i]
OwnerWorld == [tag |-> "world"]
OwnerNone == [tag |-> "none"]

Field(n, t) == [name |-> n, ty |-> t]
TypeDef(n, o, k, d) == [name |-> n, owner |-> o, kind |-> k, docs |-> d]
Function(n, k, ps, r, d) ==
    [name |-> n, kind |-> k, params |-> ps, result |-> r, docs |-> d]

Freestanding == [tag |-> "freestanding"]
Method(r) == [tag |-> "method", id |-> r]
Constructor(r) == [tag |-> "constructor", id |-> r]
Static(r) == [tag |-> "static", id |-> r]

Packages == <<
    [namespace |-> <<"m","y","-","o","r","g">>, name |-> <<"g","e","o","-","l","i","b">>, version |-> None],
    [namespace |-> <<"o","t","h","e","r">>, name |-> <<"g","e","o","-","l","i","b">>, version |-> Some(<<"0",".","2",".","0">>)],
    [namespace |-> <<"t","e","s","t">>, name |-> <<"r","e","s","o","u","r","c","e","s">>, version |-> None],
    \* the package of index 2 in a later version
    [namespace |-> <<"o","t","h","e","r">>, name |-> <<"g","e","o","-","l","i","b">>, version |-> Some(<<"0",".","3",".","0">>)] >>

Types == <<
    \* 1..10: the types of interface 1 (my-org:geo-lib/shapes)
    TypeDef(Some(<<"p","o","i","n","t">>), OwnerInterface(1),
            [tag |-> "record", fields |-> <<Field(<<"x">>, Prim("s32")), Field(<<"y">>, Prim("s32"))>>],
            Some(<<"A"," ","p","o","i","n","t",".","\n","\n","T","w","o"," ","i","n","t","s",".">>)),
    TypeDef(Some(<<"c","o","l","o","r">>), OwnerInterface(1),
            [tag |-> "enum", cases |-> <<<<"r","e","d">>, <<"g","r","e","e","n">>, <<"b","l","u","e">>>>], None),
    TypeDef(Some(<<"f","i","l","e","-","p","e","r","m","s">>), OwnerInterface(1),
            [tag |-> "flags", flags |-> <<<<"r","e","a","d">>, <<"w","r","i","t","e">>, <<"e","x","e","c","u","t","e">>>>], None),
    TypeDef(Some(<<"o","u","t","c","o","m","e">>), OwnerInterface(1),
            [tag |-> "variant", cases |-> <<Field(<<"o","k">>, Some(Prim("string"))),
                                            Field(<<"e","r","r">>, Some(Prim("string"))),
                                            Field(<<"n","o","n","e">>, None)>>], None),
    TypeDef(Some(<<"p","a","i","r">>), OwnerInterface(1),
            [tag |-> "tuple", types |-> <<Prim("s32"), TId(1)>>], None),
    TypeDef(Some(<<"m","a","y","b","e","-","p","o","i","n","t">>), OwnerInterface(1),
            [tag |-> "option", ty |-> TId(1)], None),
    TypeDef(Some(<<"m","o","v","e","-","r","e","s","u","l","t">>), OwnerInterface(1),
            [tag |-> "result", ok |-> Some(TId(1)), err |-> None], None),
    TypeDef(Some(<<"p","o","i","n","t","s">>), OwnerInterface(1),
            [tag |-> "list", ty |-> TId(1)], None),
    TypeDef(Some(<<"p","t">>), OwnerInterface(1),
            [tag |-> "type", ty |-> TId(1)], None),
    TypeDef(Some(<<"s","e","g","m","e","n","t">>), OwnerInterface(1),
            [tag |-> "record", fields |-> <<Field(<<"f","r","o","m">>, TId(1)), Field(<<"t","o">>, TId(11))>>], None),
    \* 11: the type of interface 2 (other:geo-lib/shapes@0.2.0)
    TypeDef(Some(<<"p","o","i","n","t">>), OwnerInterface(2),
            [tag |-> "record", fields |-> <<Field(<<"x">>, Prim("f64"))>>], None),
    \* 12..14: resource counter of interface 3 and its handles
    TypeDef(Some(<<"c","o","u","n","t","e","r">>), OwnerInterface(3), [tag |-> "resource"], None),
    TypeDef(None, OwnerInterface(3), [tag |-> "handle", mode |-> "own", id |-> 12], None),
    TypeDef(None, OwnerInterface(3), [tag |-> "handle", mode |-> "borrow", id |-> 12], None),
    \* 15: a type of interface 4, which has no package
    TypeDef(Some(<<"t","h","i","n","g">>), OwnerInterface(4),
            [tag |-> "record", fields |-> <<Field(<<"n">>, Prim("u8"))>>], None),
    \* 16: a type of interface 5, which has no name
    TypeDef(Some(<<"h","i","d","d","e","n">>), OwnerInterface(5),
            [tag |-> "record", fields |-> <<Field(<<"n">>, Prim("u8"))>>], None),
    \* 17: a named future of interface 6; 18, 19: anonymous stream and unknown
    TypeDef(Some(<<"f","u","t">>), OwnerInterface(6), [tag |-> "future"], None),
    TypeDef(None, OwnerNone, [tag |-> "stream"], None),
    TypeDef(None, OwnerNone, [tag |-> "unknown"], None),
    \* 20: a record without a name
    TypeDef(None, OwnerInterface(1),
            [tag |-> "record", fields |-> <<Field(<<"n">>, Prim("u8"))>>], None),
    \* 21..24: anonymous composites
    TypeDef(None, OwnerNone, [tag |-> "list", ty |-> Prim("u32")], None),
    TypeDef(None, OwnerNone, [tag |-> "fixed-size-list", ty |-> Prim("u8"), size |-> 4], None),
    TypeDef(None, OwnerNone, [tag |-> "result", ok |-> None, err |-> Some(Prim("string"))], None),
    TypeDef(None, OwnerNone, [tag |-> "tuple", types |-> <<TId(18), TId(11)>>], None),
    \* 25, 26: the types the world imports at top level
    TypeDef(Some(<<"p","o","i","n","t">>), OwnerWorld, [tag |-> "type", ty |-> TId(1)], None),
    TypeDef(Some(<<"c","o","n","f","i","g">>), OwnerWorld,
            [tag |-> "record", fields |-> <<Field(<<"o","r","i","g","i","n">>, TId(1))>>], None),
    \* 27, 28: a resource without a name and a handle to it
    TypeDef(None, OwnerInterface(3), [tag |-> "resource"], None),
    TypeDef(None, OwnerInterface(3), [tag |-> "handle", mode |-> "own", id |-> 27], None),
    \* 29: interface 9 uses point of interface 1
    TypeDef(Some(<<"p","o","i","n","t">>), OwnerInterface(9), [tag |-> "type", ty |-> TId(1)], None),
    \* 30: option<error-context>
    TypeDef(None, OwnerNone, [tag |-> "option", ty |-> ErrorContext], None),
    \* 31..34: the resources of interface 10: blob, which has no functions,
    \* and store with its handles
    TypeDef(Some(<<"b","l","o","b">>), OwnerInterface(10), [tag |-> "resource"], None),
    TypeDef(Some(<<"s","t","o","r","e">>), OwnerInterface(10), [tag |-> "resource"],
            Some(<<"A"," ","k","e","y","-","v","a","l","u","e"," ","s","t","o","r","e",".">>)),
    TypeDef(None, OwnerInterface(10), [tag |-> "handle", mode |-> "own", id |-> 32], None),
    TypeDef(None, OwnerInterface(10), [tag |-> "handle", mode |-> "borrow", id |-> 32], None),
    \* 35..37: a record and a variant of interface 9 that refer to each other
    \* (node.next: option<edge>, edge.to(node)), and the option between them
    TypeDef(Some(<<"n","o","d","e">>), OwnerInterface(9),
            [tag |-> "record", fields |-> <<Field(<<"n","e","x","t">>, TId(37))>>], None),
    TypeDef(Some(<<"e","d","g","e">>), OwnerInterface(9),
            [tag |-> "variant", cases |-> <<Field(<<"t","o">>, Some(TId(35))),
                                            Field(<<"e","n","d">>, None)>>], None),
    TypeDef(None, OwnerNone, [tag |-> "option", ty |-> TId(36)], None) >>

TypeIds == 1..Len(Types)

Interfaces == <<
    \* 1: my-org:geo-lib/shapes
    [name |-> Some(<<"s","h","a","p","e","s">>), package |-> Some(1),
     types |-> <<1, 2, 3, 4, 5, 6, 7, 8, 9, 10>>,
     functions |-> <<
        Function(<<"a","d","d">>, Freestanding,
                 <<Field(<<"a">>, Prim("s32")), Field(<<"b">>, Prim("s32"))>>,
                 Some(Prim("s32")), None),
        Function(<<"m","o","v","e","-","p","o","i","n","t">>, Freestanding,
                 <<Field(<<"p">>, TId(1)), Field(<<"b","y">>, TId(11))>>,
                 Some(TId(1)), Some(<<"M","o","v","e","s"," ","a"," ","p","o","i","n","t",".">>)) >>],
    \* 2: other:geo-lib/shapes@0.2.0, the same interface name in another package
    [name |-> Some(<<"s","h","a","p","e","s">>), package |-> Some(2),
     types |-> <<11>>, functions |-> <<>>],
    \* 3: test:resources/counters, as wit_parser resolves
    \*    resource counter { constructor(initial: s32); increment: func();
    \*                       value: func() -> s32; }
    [name |-> Some(<<"c","o","u","n","t","e","r","s">>), package |-> Some(3),
     types |-> <<12>>,
     functions |-> <<
        Function(<<"[","c","o","n","s","t","r","u","c","t","o","r","]","c","o","u","n","t","e","r">>, Constructor(12),
                 <<Field(<<"i","n","i","t","i","a","l">>, Prim("s32"))>>, Some(TId(13)), None),
        Function(<<"[","m","e","t","h","o","d","]","c","o","u","n","t","e","r",".","i","n","c","r","e","m","e","n","t">>, Method(12),
                 <<Field(<<"s","e","l","f">>, TId(14))>>, None, None),
        Function(<<"[","m","e","t","h","o","d","]","c","o","u","n","t","e","r",".","v","a","l","u","e">>, Method(12),
                 <<Field(<<"s","e","l","f">>, TId(14))>>, Some(Prim("s32")), None) >>],
    \* 4: an interface without a package
    [name |-> Some(<<"l","o","c","a","l">>), package |-> None,
     types |-> <<15>>, functions |-> <<>>],
    \* 5: an interface without a name
    [name |-> None, package |-> Some(1),
     types |-> <<16>>, functions |-> <<>>],
    \* 6: an interface that declares a named future
    [name |-> Some(<<"s","t","r","e","a","m","s">>), package |-> Some(1),
     types |-> <<17>>, functions |-> <<>>],
    \* 7: an interface with a method of a resource that is not one of its types
    [name |-> Some(<<"o","d","d">>), package |-> Some(1),
     types |-> <<>>,
     functions |-> <<
        Function(<<"[","m","e","t","h","o","d","]","c","o","u","n","t","e","r",".","p","e","e","k">>, Method(12),
                 <<Field(<<"s","e","l","f">>, TId(14))>>, Some(Prim("s32")), None),
        Function(<<"p","i","n","g">>, Freestanding, <<>>, None, None) >>],
    \* 8: test:resources/math
    [name |-> Some(<<"m","a","t","h">>), package |-> Some(3),
     types |-> <<>>,
     functions |-> <<
        Function(<<"a","d","d">>, Freestanding,
                 <<Field(<<"a">>, Prim("s32")), Field(<<"b">>, Prim("s32"))>>,
                 Some(Prim("s32")), None),
        Function(<<"l","o","g","-","i","t">>, Freestanding,
                 <<Field(<<"m","s","g">>, Prim("string"))>>, None,
                 Some(<<"L","o","g","s"," ","a"," ","m","e","s","s","a","g","e",".","\n","N","o","t","h","i","n","g"," ","i","s"," ","r","e","t","u","r","n","e","d",".">>)) >>],
    \* 9: my-org:geo-lib/canvas, which uses point of interface 1
    [name |-> Some(<<"c","a","n","v","a","s">>), package |-> Some(1),
     types |-> <<29, 35, 36>>,
     functions |-> <<
        Function(<<"d","r","a","w">>, Freestanding, <<Field(<<"a","t">>, TId(29))>>, None, None) >>],
    \* 10: test:resources/blobs, as wit_parser resolves
    \*     resource blob {}
    \*     resource store { open: static func(name: string) -> store;
    \*                      get: func(key: string) -> string;
    \*                      close: func();
    \*                      apply: static func(name: string) -> store;
    \*                      constructor(name: string); }
    \*     count: func() -> u32;
    [name |-> Some(<<"b","l","o","b","s">>), package |-> Some(3),
     types |-> <<31, 32>>,
     functions |-> <<
        Function(<<"[","s","t","a","t","i","c","]","s","t","o","r","e",".","o","p","e","n">>, Static(32),
                 <<Field(<<"n","a","m","e">>, Prim("string"))>>, Some(TId(33)), None),
        Function(<<"[","m","e","t","h","o","d","]","s","t","o","r","e",".","g","e","t">>, Method(32),
                 <<Field(<<"s","e","l","f">>, TId(34)), Field(<<"k","e","y">>, Prim("string"))>>,
                 Some(Prim("string")),
                 Some(<<"R","e","a","d","s"," ","a"," ","k","e","y",".","\n","\n","T","h","e"," ","k","e","y"," ","m","u","s","t"," ","e","x","i","s","t",".">>)),
        Function(<<"[","m","e","t","h","o","d","]","s","t","o","r","e",".","c","l","o","s","e">>, Method(32),
                 <<Field(<<"s","e","l","f">>, TId(34))>>, None, None),
        Function(<<"[","s","t","a","t","i","c","]","s","t","o","r","e",".","a","p","p","l","y">>, Static(32),
                 <<Field(<<"n","a","m","e">>, Prim("string"))>>, Some(TId(33)), None),
        Function(<<"[","c","o","n","s","t","r","u","c","t","o","r","]","s","t","o","r","e">>, Constructor(32),
                 <<Field(<<"n","a","m","e">>, Prim("string"))>>, Some(TId(33)), None),
        Function(<<"c","o","u","n","t">>, Freestanding, <<>>, Some(Prim("u32")), None) >>],
    \* 11: other:geo-lib/shapes@0.3.0, interface 2 in the later version of its
    \*     package
    [name |-> Some(<<"s","h","a","p","e","s">>), package |-> Some(4),
     types |-> <<>>,
     functions |-> <<
        Function(<<"a","r","e","a">>, Freestanding,
                 <<Field(<<"r">>, Prim("f64"))>>, Some(Prim("f64")), None) >>] >>

InterfaceIds == 1..Len(Interfaces)

\* The world: its name, the type ids of its top-level Type items and its
\* top-level Function items.
World ==
    [name |-> <<"t","e","s","t","-","w","o","r","l","d">>, import_types |-> <<25, 26>>, export_types |-> <<26>>,
     import_funcs |-> <<Function(<<"g","r","e","e","t">>, Freestanding,
                                 <<Field(<<"n","a","m","e">>, Prim("string"))>>,
                                 Some(Prim("string")), None)>>,
     export_funcs |-> <<Function(<<"r","u","n">>, Freestanding, <<>>, None, None)>>]

\* The name of a type in its interface's `types` map is the TypeDef's name.
TypeKey(id) == Types[id].name

-----------------------------------------------------------------------------
(* annotations.rs *)

component_import(namespace, name) ==
    Concat(<<<<"@","s","c","a","l","a",".","s","c","a","l","a","j","s",".","w","i","t",".","a","n","n","o","t","a","t","i","o","n",".","W","i","t","I","m","p","o","r","t","(","\"">>, namespace,
             <<"\"",","," ","\"">>, name, <<"\"",")">>>>)
component_export(namespace, name) ==
    Concat(<<<<"@","s","c","a","l","a",".","s","c","a","l","a","j","s",".","w","i","t",".","a","n","n","o","t","a","t","i","o","n",".","W","i","t","E","x","p","o","r","t","(","\"">>, namespace,
             <<"\"",","," ","\"">>, name, <<"\"",")">>>>)
component_record == <<"@","s","c","a","l","a",".","s","c","a","l","a","j","s",".","w","i","t",".","a","n","n","o","t","a","t","i","o","n",".","W","i","t","R","e","c","o","r","d">>
component_variant == <<"@","s","c","a","l","a",".","s","c","a","l","a","j","s",".","w","i","t",".","a","n","n","o","t","a","t","i","o","n",".","W","i","t","V","a","r","i","a","n","t">>
component_flags(num_flags) ==
    Concat(<<<<"@","s","c","a","l","a",".","s","c","a","l","a","j","s",".","w","i","t",".","a","n","n","o","t","a","t","i","o","n",".","W","i","t","F","l","a","g","s","(">>, Decimal(num_flags), <<")">>>>)
component_resource_import(namespace, name) ==
    Concat(<<<<"@","s","c","a","l","a",".","s","c","a","l","a","j","s",".","w","i","t",".","a","n","n","o","t","a","t","i","o","n",".","W","i","t","R","e","s","o","u","r","c","e","I","m","p","o","r","t","(","\"">>, namespace,
             <<"\"",","," ","\"">>, name, <<"\"",")">>>>)
component_resource_constructor == <<"@","s","c","a","l","a",".","s","c","a","l","a","j","s",".","w","i","t",".","a","n","n","o","t","a","t","i","o","n",".","W","i","t","R","e","s","o","u","r","c","e","C","o","n","s","t","r","u","c","t","o","r">>
component_resource_method(name) ==
    Concat(<<<<"@","s","c","a","l","a",".","s","c","a","l","a","j","s",".","w","i","t",".","a","n","n","o","t","a","t","i","o","n",".","W","i","t","R","e","s","o","u","r","c","e","M","e","t","h","o","d","(","\"">>, name, <<"\"",")">>>>)
component_resource_static_method(name) ==
    Concat(<<<<"@","s","c","a","l","a",".","s","c","a","l","a","j","s",".","w","i","t",".","a","n","n","o","t","a","t","i","o","n",".","W","i","t","R","e","s","o","u","r","c","e","S","t","a","t","i","c","M","e","t","h","o","d","(","\"">>, name, <<"\"",")">>>>)
component_resource_drop == <<"@","s","c","a","l","a",".","s","c","a","l","a","j","s",".","w","i","t",".","a","n","n","o","t","a","t","i","o","n",".","W","i","t","R","e","s","o","u","r","c","e","D","r","o","p">>
component_export_interface == <<"@","s","c","a","l","a",".","s","c","a","l","a","j","s",".","w","i","t",".","a","n","n","o","t","a","t","i","o","n",".","W","i","t","E","x","p","o","r","t","I","n","t","e","r","f","a","c","e">>
native_marker == <<"s","c","a","l","a",".","s","c","a","l","a","j","s",".","w","i","t",".","n","a","t","i","v","e">>

\* "name: type" of each parameter, joined by ", "; params are <<name, type>> texts
ParamList(params) ==
    IF \E i \in 1..Len(params) : params[i][2] = PANIC THEN PANIC
    ELSE Join([i \in 1..Len(params) |-> params[i][1] \o <<":"," ">> \o params[i][2]], <<","," ">>)

\* return_type: an Option of a text
ReturnClause(return_type) ==
    IF IsSome(return_type) THEN Fmt(<<<<":"," ">>, Unwrap(return_type)>>) ELSE <<":"," ","U","n","i","t">>

import_function(namespace, wit_name, scala_name, params, return_type, docs) ==
    Fmt(<<docs,
          component_import(namespace, wit_name), <<"\n">>,
          <<"d","e","f"," ">>, scala_name, <<"(">>, ParamList(params), <<")">>,
          ReturnClause(return_type),
          <<" ","="," ">>, native_marker, <<"\n">>>>)

\* A faulty variant of export_function: the signature keeps the native body.
export_function_with_body(namespace, wit_name, scala_name, params, return_type, docs) ==
    Fmt(<<docs,
          component_export(namespace, wit_name), <<"\n">>,
          <<"d","e","f"," ">>, scala_name, <<"(">>, ParamList(params), <<")">>,
          ReturnClause(return_type),
          <<" ","="," ">>, native_marker, <<"\n">>>>)

export_function(namespace, wit_name, scala_name, params, return_type, docs) ==
    Fmt(<<docs,
          component_export(namespace, wit_name), <<"\n">>,
          <<"d","e","f"," ">>, scala_name, <<"(">>, ParamList(params), <<")">>,
          ReturnClause(return_type),
          <<"\n">>>>)

-----------------------------------------------------------------------------
(* context.rs *)

IsSpace(c) == c \in {" ", "\n", "\t", "\r"}
RECURSIVE TrimStart(_)
TrimStart(s) == IF s /= <<>> /\ IsSpace(Head(s)) THEN TrimStart(Tail(s)) ELSE s
RECURSIVE TrimEnd(_)
TrimEnd(s) ==
    IF s /= <<>> /\ IsSpace(s[Len(s)]) THEN TrimEnd(SubSeq(s, 1, Len(s) - 1)) ELSE s
Trim(s) == TrimEnd(TrimStart(s))

Spaces(n) == [i \in 1..n |-> " "]

\* A faulty variant of DocComment: blank lines are left out.
DocCommentWithoutBlanks(lines, indent_str) ==
    IF lines = <<>> THEN <<>>
    ELSE Concat(<<indent_str, <<"/","*","*"," ">>, lines[1], <<"\n">>>>)
         \o Concat([i \in 1..(Len(lines) - 1) |->
                      IF Trim(lines[i + 1]) = <<>>
                      THEN <<>>
                      ELSE Concat(<<indent_str, <<" ","*"," "," ">>, lines[i + 1], <<"\n">>>>)])
         \o indent_str \o <<" ","*","/","\n">>

\* The Scaladoc block of the lines of a trimmed, non-empty documentation text.
DocComment(lines, indent_str) ==
    IF lines = <<>> THEN <<>>
    ELSE Concat(<<indent_str, <<"/","*","*"," ">>, lines[1], <<"\n">>>>)
         \o Concat([i \in 1..(Len(lines) - 1) |->
                      IF Trim(lines[i + 1]) = <<>>
                      THEN indent_str \o <<" ","*","\n">>
                      ELSE Concat(<<indent_str, <<" ","*"," "," ">>, lines[i + 1], <<"\n">>>>)])
         \o indent_str \o <<" ","*","/","\n">>

\* docs: Docs.contents, an Option of a text
format_docs_with_indent(docs, indent) ==
    IF ~IsSome(docs) THEN <<>>
    ELSE DocComment(Lines(Trim(Unwrap(docs))), Spaces(indent))

format_docs(docs) == format_docs_with_indent(docs, 0)

\* Faulty variants of IsForeign: sameness decided by the interfaces' names,
\* and every interface-owned type taken for foreign.
IsForeignByName(cur, owner) ==
    /\ owner.tag = "interface"
    /\ IsSome(cur)
    /\ Interfaces[owner.id].name /= Interfaces[Unwrap(cur)].name
IsForeignIgnoringCurrent(cur, owner) ==
    owner.tag = "interface" /\ IsSome(cur)

\* cur: ScalaContext.current_interface at the time of the call.
\* The type is owned by an interface, the context is in an interface, and
\* the two ids differ.
IsForeign(cur, owner) ==
    owner.tag = "interface" /\ IsSome(cur) /\ owner.id /= Unwrap(cur)

NoQualifier == [panic |-> FALSE, segments |-> <<>>]

PackageSegments(pkg_name, interface_name) ==
    base_package_segments
    \o << to_snake_case(pkg_name.namespace), to_snake_case(pkg_name.name),
          to_snake_case(interface_name) >>

\* The segments in front of the name of a type of another interface.
ForeignQualifier(type_interface) ==
    IF ~IsSome(type_interface.name) THEN [panic |-> TRUE, segments |-> <<>>]
    ELSE IF IsSome(type_interface.package)
    THEN [panic |-> FALSE,
          segments |-> PackageSegments(Packages[Unwrap(type_interface.package)],
                                       Unwrap(type_interface.name))]
    ELSE NoQualifier

Qualifier(cur, owner) ==
    IF IsForeign(cur, owner) THEN ForeignQualifier(Interfaces[owner.id])
    ELSE NoQualifier

Qualified(q, simple_name) ==
    IF q.panic THEN PANIC ELSE Join(q.segments \o <<simple_name>>, <<".">>)

get_qualified_type_name(cur, type_id, type_name) ==
    Qualified(Qualifier(cur, Types[type_id].owner), to_pascal_case(type_name))

\* A faulty variant of render_primitive_type: the unsigned kinds share the
\* tokens of the signed ones, and a non-primitive type gets a token.
render_primitive_type_signed(ty) ==
    IF ty.tag /= "prim" THEN <<"A","n","y">>
    ELSE CASE ty.kind = "bool" -> <<"B","o","o","l","e","a","n">>
           [] ty.kind \in {"s8", "u8"} -> <<"B","y","t","e">>
           [] ty.kind \in {"s16", "u16"} -> <<"S","h","o","r","t">>
           [] ty.kind \in {"s32", "u32"} -> <<"I","n","t">>
           [] ty.kind \in {"s64", "u64"} -> <<"L","o","n","g">>
           [] ty.kind = "f32" -> <<"F","l","o","a","t">>
           [] ty.kind = "f64" -> <<"D","o","u","b","l","e">>
           [] ty.kind = "char" -> <<"C","h","a","r">>
           [] ty.kind = "string" -> <<"S","t","r","i","n","g">>
           [] OTHER -> PANIC

render_primitive_type(ty) ==
    IF ty.tag /= "prim" THEN PANIC
    ELSE CASE ty.kind = "bool" -> <<"B","o","o","l","e","a","n">>
           [] ty.kind = "s8" -> <<"B","y","t","e">>
           [] ty.kind = "u8" -> <<"s","c","a","l","a",".","s","c","a","l","a","j","s",".","w","i","t",".","u","n","s","i","g","n","e","d",".","U","B","y","t","e">>
           [] ty.kind = "s16" -> <<"S","h","o","r","t">>
           [] ty.kind = "u16" -> <<"s","c","a","l","a",".","s","c","a","l","a","j","s",".","w","i","t",".","u","n","s","i","g","n","e","d",".","U","S","h","o","r","t">>
           [] ty.kind = "s32" -> <<"I","n","t">>
           [] ty.kind = "u32" -> <<"s","c","a","l","a",".","s","c","a","l","a","j","s",".","w","i","t",".","u","n","s","i","g","n","e","d",".","U","I","n","t">>
           [] ty.kind = "s64" -> <<"L","o","n","g">>
           [] ty.kind = "u64" -> <<"s","c","a","l","a",".","s","c","a","l","a","j","s",".","w","i","t",".","u","n","s","i","g","n","e","d",".","U","L","o","n","g">>
           [] ty.kind = "f32" -> <<"F","l","o","a","t">>
           [] ty.kind = "f64" -> <<"D","o","u","b","l","e">>
           [] ty.kind = "char" -> <<"C","h","a","r">>
           [] ty.kind = "string" -> <<"S","t","r","i","n","g">>
           [] OTHER -> PANIC

RECURSIVE render_type(_, _)
RECURSIVE render_type_id(_, _)
RECURSIVE RenderKind(_, _, _)

\* Option<Type> -> rendering, "Unit" when absent
RenderOrUnit(cur, oty) ==
    IF IsSome(oty) THEN render_type(cur, Unwrap(oty)) ELSE <<"U","n","i","t">>

RenderAll(cur, tys) == [i \in 1..Len(tys) |-> render_type(cur, tys[i])]

JoinRendered(rs) ==
    IF \E i \in 1..Len(rs) : rs[i] = PANIC THEN PANIC ELSE Join(rs, <<","," ">>)

render_type(cur, ty) ==
    CASE ty.tag = "prim" -> render_primitive_type(ty)
      [] ty.tag = "id" -> render_type_id(cur, ty.id)
      [] OTHER -> PANIC   \* Type::ErrorContext

\* expect("Named types must have a name"), then the qualified name
RenderNamed(cur, id, name) ==
    IF ~IsSome(name) THEN PANIC ELSE get_qualified_type_name(cur, id, Unwrap(name))

\* The type whose name a reference renders: the resource of a handle, else
\* the type itself.
\* A faulty variant of NamedId: a handle is named by its own typedef
NamedIdOfReference(id, k) == id

NamedId(id, k) == IF k.tag = "handle" THEN k.id ELSE id

RenderKind(cur, id, k) ==
    CASE k.tag \in {"list", "fixed-size-list"} ->
            Fmt(<<<<"A","r","r","a","y","[">>, render_type(cur, k.ty), <<"]">>>>)
      [] k.tag = "option" ->
            Fmt(<<<<"j","a","v","a",".","u","t","i","l",".","O","p","t","i","o","n","a","l","[">>, render_type(cur, k.ty), <<"]">>>>)
      [] k.tag = "result" ->
            Fmt(<<<<"s","c","a","l","a",".","s","c","a","l","a","j","s",".","w","i","t",".","R","e","s","u","l","t","[">>, RenderOrUnit(cur, k.ok),
                  <<","," ">>, RenderOrUnit(cur, k.err), <<"]">>>>)
      [] k.tag = "tuple" ->
            Fmt(<<<<"s","c","a","l","a",".","s","c","a","l","a","j","s",".","w","i","t",".","T","u","p","l","e">>, Decimal(Len(k.types)), <<"[">>,
                  JoinRendered(RenderAll(cur, k.types)), <<"]">>>>)
      [] k.tag \in {"record", "variant", "enum", "flags", "handle", "resource"} ->
            RenderNamed(cur, NamedId(id, k), TypeKey(NamedId(id, k)))
      [] k.tag = "type" -> render_type(cur, k.ty)
      [] k.tag \in {"future", "stream", "unknown"} -> <<"U","n","k","n","o","w","n">>

render_type_id(cur, id) == RenderKind(cur, id, Types[id].kind)

\* A faulty variant of render_record: the field names are not case-converted
render_record_with_schema_names(cur, name, record, type_docs) ==
    Fmt(<<format_docs(type_docs),
          component_record, <<"\n">>,
          <<"f","i","n","a","l"," ","c","a","s","e"," ","c","l","a","s","s"," ">>, name, <<"(">>,
          ParamList([i \in 1..Len(record.fields) |->
                        <<record.fields[i].name, render_type(cur, record.fields[i].ty)>>]),
          <<")","\n">>>>)

render_record(cur, name, record, type_docs) ==
    LET fs == record.fields
        rendered == [i \in 1..Len(fs) |->
                       <<to_camel_case(fs[i].name), render_type(cur, fs[i].ty)>>]
    IN  Fmt(<<format_docs(type_docs),
              component_record, <<"\n">>,
              <<"f","i","n","a","l"," ","c","a","s","e"," ","c","l","a","s","s"," ">>, name, <<"(">>, ParamList(rendered), <<")","\n">>>>)

\* A faulty variant of render_variant: the payload of a case is dropped
render_variant_without_payloads(cur, name, variant, type_docs) ==
    Concat(<<format_docs(type_docs),
             component_variant, <<"\n">>,
             <<"s","e","a","l","e","d"," ","t","r","a","i","t"," ">>, name, <<"\n">>,
             <<"o","b","j","e","c","t"," ">>, name, <<" ","{","\n">>,
             Concat([i \in 1..Len(variant.cases) |->
                       Concat(<<<<" "," ","c","a","s","e"," ","o","b","j","e","c","t"," ">>, to_pascal_case(variant.cases[i].name),
                                <<" ","e","x","t","e","n","d","s"," ">>, name, <<"\n">>>>)]),
             <<"}","\n">>>>)

render_variant(cur, name, variant, type_docs) ==
    LET cs == variant.cases
        CaseLine(c) ==
            IF IsSome(c.ty)
            THEN Fmt(<<<<" "," ","f","i","n","a","l"," ","c","a","s","e"," ","c","l","a","s","s"," ">>, to_pascal_case(c.name), <<"(","v","a","l","u","e",":"," ">>,
                       render_type(cur, Unwrap(c.ty)), <<")"," ","e","x","t","e","n","d","s"," ">>, name, <<"\n">>>>)
            ELSE Concat(<<<<" "," ","c","a","s","e"," ","o","b","j","e","c","t"," ">>, to_pascal_case(c.name),
                          <<" ","e","x","t","e","n","d","s"," ">>, name, <<"\n">>>>)
    IN  Fmt(<<format_docs(type_docs),
              component_variant, <<"\n">>,
              <<"s","e","a","l","e","d"," ","t","r","a","i","t"," ">>, name, <<"\n">>,
              <<"o","b","j","e","c","t"," ">>, name, <<" ","{","\n">>,
              Fmt([i \in 1..Len(cs) |-> CaseLine(cs[i])]),
              <<"}","\n">>>>)

\* A faulty variant of render_enum: the case objects do not extend the trait
render_enum_unsealed(name, enum_, type_docs) ==
    Concat(<<format_docs(type_docs),
             component_variant, <<"\n">>,
             <<"s","e","a","l","e","d"," ","t","r","a","i","t"," ">>, name, <<"\n">>,
             <<"o","b","j","e","c","t"," ">>, name, <<" ","{","\n">>,
             Concat([i \in 1..Len(enum_.cases) |->
                       Concat(<<<<" "," ","c","a","s","e"," ","o","b","j","e","c","t"," ">>, to_pascal_case(enum_.cases[i]),
                                <<"\n">>>>)]),
             <<"}","\n">>>>)

render_enum(name, enum_, type_docs) ==
    LET cs == enum_.cases
    IN  Concat(<<format_docs(type_docs),
                 component_variant, <<"\n">>,
                 <<"s","e","a","l","e","d"," ","t","r","a","i","t"," ">>, name, <<"\n">>,
                 <<"o","b","j","e","c","t"," ">>, name, <<" ","{","\n">>,
                 Concat([i \in 1..Len(cs) |->
                           Concat(<<<<" "," ","c","a","s","e"," ","o","b","j","e","c","t"," ">>, to_pascal_case(cs[i]),
                                    <<" ","e","x","t","e","n","d","s"," ">>, name, <<"\n">>>>)]),
                 <<"}","\n">>>>)

\* One line "  val <flag> = <Name>(1 << <i>)" per flag, i counted from 0.
FlagConstantLine(name, flag_name, i) ==
    Concat(<<<<" "," ","v","a","l"," ">>, to_camel_case(flag_name), <<" ","="," ">>, name,
             <<"(","1"," ","<","<"," ">>, Decimal(i), <<")","\n">>>>)

render_flags(name, flags, type_docs) ==
    LET fl == flags.flags
    IN  Concat(<<format_docs(type_docs),
                 component_flags(Len(fl)), <<"\n">>,
                 <<"f","i","n","a","l"," ","c","a","s","e"," ","c","l","a","s","s"," ">>, name, <<"(","v","a","l","u","e",":"," ","I","n","t",")"," ","{","\n">>,
                 <<" "," ","d","e","f"," ","|","(","o","t","h","e","r",":"," ">>, name, <<")",":"," ">>, name, <<" ","="," ">>, name,
                     <<"(","v","a","l","u","e"," ","|"," ","o","t","h","e","r",".","v","a","l","u","e",")","\n">>,
                 <<" "," ","d","e","f"," ","&","(","o","t","h","e","r",":"," ">>, name, <<")",":"," ">>, name, <<" ","="," ">>, name,
                     <<"(","v","a","l","u","e"," ","&"," ","o","t","h","e","r",".","v","a","l","u","e",")","\n">>,
                 <<" "," ","d","e","f"," ","^","(","o","t","h","e","r",":"," ">>, name, <<")",":"," ">>, name, <<" ","="," ">>, name,
                     <<"(","v","a","l","u","e"," ","^"," ","o","t","h","e","r",".","v","a","l","u","e",")","\n">>,
                 <<" "," ","d","e","f"," ","u","n","a","r","y","_","~"," ",":"," ">>, name, <<" ","="," ">>, name, <<"(","~","v","a","l","u","e",")","\n">>,
                 <<" "," ","d","e","f"," ","c","o","n","t","a","i","n","s","(","o","t","h","e","r",":"," ">>, name,
                     <<")",":"," ","B","o","o","l","e","a","n"," ","="," ","(","v","a","l","u","e"," ","&"," ","o","t","h","e","r",".","v","a","l","u","e",")"," ","=","="," ","o","t","h","e","r",".","v","a","l","u","e","\n">>,
                 <<"}","\n">>,
                 <<"o","b","j","e","c","t"," ">>, name, <<" ","{","\n">>,
                 Concat([i \in 1..Len(fl) |-> FlagConstantLine(name, fl[i], i - 1)]),
                 <<"}","\n">>>>)

render_tuple_typedef(cur, name, tuple) ==
    Fmt(<<<<"t","y","p","e"," ">>, name, <<" ","="," ","s","c","a","l","a",".","s","c","a","l","a","j","s",".","w","i","t",".","T","u","p","l","e">>, Decimal(Len(tuple.types)),
          <<"[">>, JoinRendered(RenderAll(cur, tuple.types)), <<"]">>>>)

render_option_typedef(cur, name, inner) ==
    Fmt(<<<<"t","y","p","e"," ">>, name, <<" ","="," ","j","a","v","a",".","u","t","i","l",".","O","p","t","i","o","n","a","l","[">>, render_type(cur, inner), <<"]">>>>)

\* A faulty variant of render_result_typedef: a missing side is Nothing
render_result_typedef_nothing(cur, name, result) ==
    Fmt(<<<<"t","y","p","e"," ">>, name, <<" ","="," ","s","c","a","l","a",".","s","c","a","l","a","j","s",".","w","i","t",".","R","e","s","u","l","t","[">>,
          (IF IsSome(result.ok) THEN render_type(cur, Unwrap(result.ok)) ELSE <<"N","o","t","h","i","n","g">>),
          <<","," ">>,
          (IF IsSome(result.err) THEN render_type(cur, Unwrap(result.err)) ELSE <<"N","o","t","h","i","n","g">>),
          <<"]">>>>)

render_result_typedef(cur, name, result) ==
    Fmt(<<<<"t","y","p","e"," ">>, name, <<" ","="," ","s","c","a","l","a",".","s","c","a","l","a","j","s",".","w","i","t",".","R","e","s","u","l","t","[">>,
          RenderOrUnit(cur, result.ok), <<","," ">>, RenderOrUnit(cur, result.err), <<"]">>>>)

render_list_typedef(cur, name, inner) ==
    Fmt(<<<<"t","y","p","e"," ">>, name, <<" ","="," ","A","r","r","a","y","[">>, render_type(cur, inner), <<"]">>>>)

\* The declaration of a named type; type_name is its Scala name.
RenderTypedefKind(cur, type_name, k, docs) ==
    CASE k.tag = "record" -> render_record(cur, type_name, k, docs)
      [] k.tag = "variant" -> render_variant(cur, type_name, k, docs)
      [] k.tag = "enum" -> render_enum(type_name, k, docs)
      [] k.tag = "flags" -> render_flags(type_name, k, docs)
      [] k.tag = "tuple" -> render_tuple_typedef(cur, type_name, k)
      [] k.tag = "option" -> render_option_typedef(cur, type_name, k.ty)
      [] k.tag = "result" -> render_result_typedef(cur, type_name, k)
      [] k.tag = "list" -> render_list_typedef(cur, type_name, k.ty)
      [] k.tag = "type" ->
            Fmt(<<<<"t","y","p","e"," ">>, type_name, <<" ","="," ">>, render_type(cur, k.ty)>>)
      [] k.tag \in {"handle", "resource"} -> <<"/","/"," ","R","e","s","o","u","r","c","e",":"," ">> \o type_name
      [] k.tag = "fixed-size-list" ->
            Fmt(<<<<"t","y","p","e"," ">>, type_name, <<" ","="," ","A","r","r","a","y","[">>, render_type(cur, k.ty),
                  <<"]"," ","/","/"," ","F","i","x","e","d"," ","s","i","z","e",":"," ">>, Decimal(k.size)>>)
      [] k.tag \in {"future", "stream", "unknown"} -> PANIC

\* expect("Type must have a name"), then the declaration
RenderTypedefOf(cur, ty) ==
    IF ~IsSome(ty.name) THEN PANIC
    ELSE RenderTypedefKind(cur, to_pascal_case(Unwrap(ty.name)), ty.kind, ty.docs)

render_typedef(cur, id) == RenderTypedefOf(cur, Types[id])

\* "name: type" of each parameter of func, rendered under cur
RenderedParams(cur, func) ==
    [i \in 1..Len(func.params) |->
        <<to_camel_case(func.params[i].name), render_type(cur, func.params[i].ty)>>]

\* Option<Type> -> Option of its rendering
RenderedResult(cur, oty) ==
    IF IsSome(oty) THEN Some(render_type(cur, Unwrap(oty))) ELSE None

FunctionText(is_import, namespace, wit_name, func_name, params, return_type, docs) ==
    IF is_import
    THEN import_function(namespace, wit_name, func_name, params, return_type, docs)
    ELSE export_function(namespace, wit_name, func_name, params, return_type, docs)

render_function(cur, func, is_import, namespace) ==
    FunctionText(is_import, namespace, func.name, to_camel_case(func.name),
                 RenderedParams(cur, func), RenderedResult(cur, func.result),
                 format_docs(func.docs))

-----
(* resource.rs *)

\* A faulty variant of render_resource_method: the documentation comment is
\* not indented
render_resource_method_flush_docs(cur, wit_name, func) ==
    Fmt(<<format_docs(func.docs),
          <<" "," ">>, component_resource_method(wit_name), <<"\n">>,
          <<" "," ","d","e","f"," ">>, to_camel_case(wit_name), <<"(">>,
          ParamList(RenderedParams(cur, func)), <<")">>,
          <<":"," ">>, RenderOrUnit(cur, func.result),
          <<" ","="," ">>, native_marker, <<"\n">>>>)

render_resource_method(cur, wit_name, func) ==
    Fmt(<<format_docs_with_indent(func.docs, 2),
          <<" "," ">>, component_resource_method(wit_name), <<"\n">>,
          <<" "," ","d","e","f"," ">>, to_camel_case(wit_name), <<"(">>,
          ParamList(RenderedParams(cur, func)), <<")">>,
          <<":"," ">>, RenderOrUnit(cur, func.result),
          <<" ","="," ">>, native_marker, <<"\n">>>>)

render_resource_constructor(cur, scala_name, func) ==
    Fmt(<<format_docs_with_indent(func.docs, 2),
          <<" "," ">>, component_resource_constructor, <<"\n">>,
          <<" "," ","d","e","f"," ","a","p","p","l","y","(">>, ParamList(RenderedParams(cur, func)), <<")">>,
          <<":"," ">>, scala_name,
          <<" ","="," ">>, native_marker, <<"\n">>>>)

\* A faulty variant of render_resource_static_method: the method is named as
\* the constructor is
render_resource_static_method_as_apply(cur, wit_name, func) ==
    Fmt(<<format_docs_with_indent(func.docs, 2),
          <<" "," ">>, component_resource_static_method(wit_name), <<"\n">>,
          <<" "," ","d","e","f"," ","a","p","p","l","y","(">>,
          ParamList(RenderedParams(cur, func)), <<")">>,
          <<":"," ">>, RenderOrUnit(cur, func.result),
          <<" ","="," ">>, native_marker, <<"\n">>>>)

render_resource_static_method(cur, wit_name, func) ==
    Fmt(<<format_docs_with_indent(func.docs, 2),
          <<" "," ">>, component_resource_static_method(wit_name), <<"\n">>,
          <<" "," ","d","e","f"," ">>, to_camel_case(wit_name), <<"(">>,
          ParamList(RenderedParams(cur, func)), <<")">>,
          <<":"," ">>, RenderOrUnit(cur, func.result),
          <<" ","="," ">>, native_marker, <<"\n">>>>)

\* A faulty variant of render_resource_drop_method: no destructor
render_resource_drop_method_absent == <<>>

render_resource_drop_method ==
    Concat(<<<<" "," ">>, component_resource_drop, <<"\n">>,
             <<" "," ","d","e","f"," ","c","l","o","s","e","(",")",":"," ","U","n","i","t"," ","="," ">>, native_marker, <<"\n">>>>)

\* The functions of the resource's owning interface, in order (none when the
\* resource is not owned by an interface).
OwnerFunctions(owner) ==
    IF owner.tag = "interface" THEN Interfaces[owner.id].functions ELSE <<>>

TraitMember(cur, resource_id, f) ==
    IF f.kind.tag = "method" /\ f.kind.id = resource_id
    THEN render_resource_method(cur, f.name, f) ELSE <<>>

\* A faulty variant of CompanionMember: the constructors and static functions
\* of every resource of the interface are taken, not those of this resource
CompanionMemberOfAnyResource(cur, resource_id, scala_name, f) ==
    IF f.kind.tag = "constructor"
    THEN render_resource_constructor(cur, scala_name, f)
    ELSE IF f.kind.tag = "static"
    THEN render_resource_static_method(cur, f.name, f)
    ELSE <<>>

CompanionMember(cur, resource_id, scala_name, f) ==
    IF f.kind.tag = "constructor" /\ f.kind.id = resource_id
    THEN render_resource_constructor(cur, scala_name, f)
    ELSE IF f.kind.tag = "static" /\ f.kind.id = resource_id
    THEN render_resource_static_method(cur, f.name, f)
    ELSE <<>>

ResourceText(cur, resource_id, namespace, wit_name, scala_name, docs, fns) ==
    Fmt(<<format_docs(docs),
          component_resource_import(namespace, wit_name), <<"\n">>,
          <<"t","r","a","i","t"," ">>, scala_name, <<" ","{","\n">>,
          Fmt([i \in 1..Len(fns) |-> TraitMember(cur, resource_id, fns[i])]),
          render_resource_drop_method,
          <<"}","\n">>,
          <<"o","b","j","e","c","t"," ">>, scala_name, <<" ","{","\n">>,
          Fmt([i \in 1..Len(fns) |-> CompanionMember(cur, resource_id, scala_name, fns[i])]),
          <<"}","\n">>>>)

\* expect("Resource must have a name"), then the trait and its companion
ResourceOf(cur, resource_id, namespace, resource) ==
    IF ~IsSome(resource.name) THEN PANIC
    ELSE ResourceText(cur, resource_id, namespace, Unwrap(resource.name),
                      to_pascal_case(Unwrap(resource.name)), resource.docs,
                      OwnerFunctions(resource.owner))

render_imported_resource(cur, resource_id, namespace) ==
    ResourceOf(cur, resource_id, namespace, Types[resource_id])

-----
(* interface.rs *)

\* The namespace segments shared by get_package_path and
\* get_interface_file_path: base package, "exports" for an export, then the
\* part before ':' and the part between ':' and the first '/', without '@...'.
\* A faulty variant of NamespaceSegments: every part of the path after the
\* colon becomes a segment, the interface and its version included.
NamespaceSegmentsOfWholePath(namespace, is_import) ==
    LET parts == Split(namespace, ":")
        path_parts == Split(parts[2], "/")
    IN  base_package_segments
        \o (IF is_import THEN <<>> ELSE <<<<"e","x","p","o","r","t","s">>>>)
        \o (IF Len(parts) >= 2
            THEN <<to_snake_case(parts[1])>>
                 \o [i \in 1..Len(path_parts) |-> to_snake_case(path_parts[i])]
            ELSE <<>>)

NamespaceSegments(namespace, is_import) ==
    LET parts == Split(namespace, ":")
        path_parts == Split(parts[2], "/")
        package_name == Split(path_parts[1], "@")[1]
    IN  base_package_segments
        \o (IF is_import THEN <<>> ELSE <<<<"e","x","p","o","r","t","s">>>>)
        \o (IF Len(parts) >= 2
            THEN <<to_snake_case(parts[1]), to_snake_case(package_name)>>
            ELSE <<>>)

get_package_path(namespace, is_import) ==
    Join(NamespaceSegments(namespace, is_import), <<".">>)

\* A faulty variant of get_interface_file_path: the namespace segments are not
\* directories of their own
get_interface_file_path_flat(namespace, interface_name, is_import) ==
    Concat(<<Join(NamespaceSegments(namespace, is_import), <<".">>), <<"/">>,
             to_snake_case(interface_name), <<".","s","c","a","l","a">>>>)

get_interface_file_path(namespace, interface_name, is_import) ==
    Concat(<<Join(NamespaceSegments(namespace, is_import), <<"/">>), <<"/">>,
             to_snake_case(interface_name), <<".","s","c","a","l","a">>>>)

\* Each line indented by two spaces (an empty line stays empty), followed by
\* one empty line.
IndentLines(ls) ==
    Concat([i \in 1..Len(ls) |->
              IF ls[i] = <<>> THEN <<"\n">> ELSE <<" "," ">> \o ls[i] \o <<"\n">>])
    \o <<"\n">>

IndentFragment(text) == IndentLines(Lines(text))

\* A section: its heading and the fragments, or nothing without fragments.
Section(heading, fragments) ==
    IF \E i \in 1..Len(fragments) : fragments[i] = PANIC THEN PANIC
    ELSE IF fragments = <<>> THEN <<>>
    ELSE heading \o Concat([i \in 1..Len(fragments) |-> IndentFragment(fragments[i])])

\* A faulty variant of InterfaceRenderCur: the context is in no interface.
InterfaceRenderCurUnset(interface_id) == None

\* set_current_interface(Some(interface_id)): the context under which
\* render_interface renders everything of the interface.
InterfaceRenderCur(interface_id) == Some(interface_id)

IsResourceFunction(f) == f.kind.tag \in {"method", "constructor", "static"}
IsFreeFunction(f) == ~IsResourceFunction(f)
IsResourceType(tid) == Types[tid].kind.tag = "resource"

\* A typedef is kept unless it is empty or a comment (a panic unwinds).
KeepTypedef(t) == t = PANIC \/ (t /= <<>> /\ ~StartsWith(t, <<"/","/">>))

GeneratedTypes(cur, type_ids) ==
    SelectSeq([i \in 1..Len(type_ids) |-> render_typedef(cur, type_ids[i])], KeepTypedef)

\* A faulty variant of GeneratedResources: an export drops the resources.
GeneratedResourcesDropped(cur, resource_ids, namespace, is_import) ==
    IF is_import
    THEN [i \in 1..Len(resource_ids) |->
            render_imported_resource(cur, resource_ids[i], namespace)]
    ELSE <<>>

\* Every resource of the interface: rendered when importing, a panic when
\* exporting.
GeneratedResources(cur, resource_ids, namespace, is_import) ==
    [i \in 1..Len(resource_ids) |->
        IF is_import
        THEN render_imported_resource(cur, resource_ids[i], namespace)
        ELSE PANIC]

GeneratedFunctions(cur, free_functions, namespace, is_import) ==
    [i \in 1..Len(free_functions) |->
        render_function(cur, free_functions[i], is_import, namespace)]

InterfaceHeader(is_import, interface_name) ==
    IF is_import
    THEN Concat(<<<<"p","a","c","k","a","g","e"," ","o","b","j","e","c","t"," ">>, to_snake_case(interface_name), <<" ","{","\n">>>>)
    ELSE Concat(<<component_export_interface, <<"\n">>,
                  <<"t","r","a","i","t"," ">>, to_pascal_case(interface_name), <<" ","{","\n">>>>)

InterfaceText(cur, interface, namespace, is_import) ==
    IF ~IsSome(interface.name) THEN PANIC
    ELSE Fmt(<<<<"p","a","c","k","a","g","e"," ">>, get_package_path(namespace, is_import), <<"\n","\n">>,
               InterfaceHeader(is_import, Unwrap(interface.name)),
               <<"\n">>,
               Section(<<" "," ","/","/"," ","T","y","p","e"," ","d","e","f","i","n","i","t","i","o","n","s","\n">>,
                       GeneratedTypes(cur, interface.types)),
               Section(<<" "," ","/","/"," ","R","e","s","o","u","r","c","e","s","\n">>,
                       GeneratedResources(cur, SelectSeq(interface.types, IsResourceType),
                                          namespace, is_import)),
               Section(<<" "," ","/","/"," ","F","u","n","c","t","i","o","n","s","\n">>,
                       GeneratedFunctions(cur, SelectSeq(interface.functions, IsFreeFunction),
                                          namespace, is_import)),
               <<"}","\n">>>>)

render_interface(interface_id, namespace, is_import) ==
    InterfaceText(InterfaceRenderCur(interface_id), Interfaces[interface_id],
                  namespace, is_import)

-----------------------------------------------------------------------------
(* world.rs *)

WorldSegments(world_name, is_import) ==
    base_package_segments
    \o (IF is_import THEN <<>> ELSE <<<<"e","x","p","o","r","t","s">>>>)
    \o <<to_snake_case(world_name)>>

get_world_package_path(world_name, is_import) ==
    Join(WorldSegments(world_name, is_import), <<".">>)

get_world_file_path(world_name, is_import) ==
    Join(WorldSegments(world_name, is_import), <<"/">>) \o <<"/","p","a","c","k","a","g","e",".","s","c","a","l","a">>

\* render_world never sets the current interface: it renders under the one
\* the context holds when it is called.
WorldRenderCur(cur) == cur

WorldItems(is_import) == IF is_import THEN World.import_types ELSE World.export_types

WorldTypeSection(kept) ==
    Fmt([i \in 1..Len(kept) |->
           IF kept[i] = PANIC THEN PANIC
           ELSE <<" "," ","/","/"," ","T","y","p","e"," ","d","e","f","i","n","i","t","i","o","n","s","\n">> \o IndentFragment(kept[i])])

\* The result: [tag |-> "panic"], [tag |-> "none"] (no content: None is
\* returned) or [tag |-> "some", text |-> the file's text].
WorldResult(has_content, output) ==
    IF output = PANIC THEN [tag |-> "panic"]
    ELSE IF has_content THEN [tag |-> "some", text |-> output]
    ELSE [tag |-> "none"]

WorldText(is_import, kept) ==
    WorldResult(kept /= <<>>,
        Fmt(<<<<"p","a","c","k","a","g","e"," ">>, get_world_package_path(World.name, is_import), <<"\n","\n">>,
              <<"p","a","c","k","a","g","e"," ","o","b","j","e","c","t"," ">>, to_snake_case(World.name), <<" ","{","\n">>,
              <<"\n">>,
              WorldTypeSection(kept),
              <<"}","\n">>>>))

render_world(ctx_cur, is_import) ==
    WorldText(is_import, GeneratedTypes(WorldRenderCur(ctx_cur), WorldItems(is_import)))

-----------------------------------------------------------------------------
(* lib.rs *)

\* resolve.name_world_key(name): the key under which the world lists an
\* interface that has no package is its name.
NameWorldKey(interface_name) == interface_name

PackagePrefix(pkg_name) ==
    Concat(<<pkg_name.namespace, <<":">>, pkg_name.name, <<"/">>>>)
VersionSuffix(pkg_name) ==
    IF IsSome(pkg_name.version) THEN <<"@">> \o Unwrap(pkg_name.version) ELSE <<>>
PackagedNamespace(pkg_name, interface_name) ==
    PackagePrefix(pkg_name) \o interface_name \o VersionSuffix(pkg_name)

\* "namespace:name/interface" or "namespace:name/interface@version"
NamespaceOf(interface) ==
    IF IsSome(interface.package)
    THEN PackagedNamespace(Packages[Unwrap(interface.package)], Unwrap(interface.name))
    ELSE NameWorldKey(Unwrap(interface.name))

InterfaceNamespace(id) == NamespaceOf(Interfaces[id])

-----
(* The generator (lib.rs, impl WorldGenerator for Scala) *)

Init ==
    /\ current_interface = None
    /\ imports = {}
    /\ exports = {}
    /\ has_world_imports = FALSE
    /\ has_world_exports = FALSE
    /\ files = <<>>
    /\ status = "running"
    /\ calls = 0
    /\ renderLog = {}
    /\ out = [op |-> "none"]

\* files.push of a rendered interface; a panic while rendering ends the run.
PushRendered(id, is_import, file_path, content) ==
    /\ current_interface' = InterfaceRenderCur(id)
    /\ renderLog' = renderLog \cup
          {[scope |-> "interface", id |-> id, is_import |-> is_import,
            cur |-> InterfaceRenderCur(id)]}
    /\ IF content = PANIC
       THEN status' = "panicked" /\ files' = files
       ELSE status' = status /\ files' = Append(files, <<file_path, content>>)

\* render_interface reads the schema and the options only: the text of each
\* named interface in each mode and the path of its file, computed once.
RenderedInterfaces ==
    [id \in {i \in InterfaceIds : IsSome(Interfaces[i].name)} |->
        [is_import \in BOOLEAN |->
            [file_path |-> get_interface_file_path(InterfaceNamespace(id),
                                                   Unwrap(Interfaces[id].name), is_import),
             content |-> render_interface(id, InterfaceNamespace(id), is_import)]]]

RenderNamedInterface(id, is_import, interface_name, namespace) ==
    PushRendered(id, is_import,
                 RenderedInterfaces[id][is_import].file_path,
                 RenderedInterfaces[id][is_import].content)

\* What import_interface and export_interface do after recording the id:
\* Err for an interface without a name, else render and push the file.
RenderAndPush(id, is_import) ==
    IF ~IsSome(Interfaces[id].name)
    THEN /\ status' = "error"
         /\ UNCHANGED <<current_interface, files, renderLog>>
    ELSE RenderNamedInterface(id, is_import, Unwrap(Interfaces[id].name),
                              InterfaceNamespace(id))

import_interface(id) ==
    /\ status = "running"
    /\ calls < MaxCalls
    /\ calls' = calls + 1
    /\ imports' = imports \cup {id}
    /\ RenderAndPush(id, TRUE)
    /\ UNCHANGED <<exports, has_world_imports, has_world_exports, out>>

export_interface(id) ==
    /\ status = "running"
    /\ calls < MaxCalls
    /\ calls' = calls + 1
    /\ exports' = exports \cup {id}
    /\ RenderAndPush(id, FALSE)
    /\ UNCHANGED <<imports, has_world_imports, has_world_exports, out>>

\* import_funcs and import_types: nonempty says whether the slice passed has
\* an element.
import_funcs(nonempty) ==
    /\ status = "running"
    /\ has_world_imports' = (has_world_imports \/ nonempty)
    /\ UNCHANGED <<current_interface, imports, exports, has_world_exports,
                   files, status, calls, renderLog, out>>

import_types(nonempty) ==
    /\ status = "running"
    /\ has_world_imports' = (has_world_imports \/ nonempty)
    /\ UNCHANGED <<current_interface, imports, exports, has_world_exports,
                   files, status, calls, renderLog, out>>

export_funcs(nonempty) ==
    /\ status = "running"
    /\ has_world_exports' = (has_world_exports \/ nonempty)
    /\ UNCHANGED <<current_interface, imports, exports, has_world_imports,
                   files, status, calls, renderLog, out>>

NoWorld == [tag |-> "none"]

\* The file pushed for a world-level rendering that returned Some(content)
WorldFile(is_import, result) ==
    IF result.tag = "some"
    THEN << <<get_world_file_path(World.name, is_import), result.text>> >>
    ELSE <<>>

\* imp, exp: the results of the two render_world calls (NoWorld when the
\* call is not made); a panic in the first ends the run before the second.
FinishWith(imp, exp) ==
    /\ status' = IF imp.tag = "panic" \/ exp.tag = "panic"
                 THEN "panicked" ELSE "finished"
    /\ files' = files \o WorldFile(TRUE, imp)
                      \o (IF imp.tag = "panic" THEN <<>> ELSE WorldFile(FALSE, exp))
    /\ renderLog' = renderLog
          \cup (IF has_world_imports
                THEN {[scope |-> "world", id |-> 0, is_import |-> TRUE,
                       cur |-> WorldRenderCur(current_interface)]} ELSE {})
          \cup (IF has_world_exports /\ imp.tag /= "panic"
                THEN {[scope |-> "world", id |-> 0, is_import |-> FALSE,
                       cur |-> WorldRenderCur(current_interface)]} ELSE {})

finish ==
    /\ status = "running"
    /\ FinishWith(IF has_world_imports
                  THEN render_world(current_interface, TRUE) ELSE NoWorld,
                  IF has_world_exports
                  THEN render_world(current_interface, FALSE) ELSE NoWorld)
    /\ UNCHANGED <<current_interface, imports, exports, has_world_imports,
                   has_world_exports, calls, out>>

Next ==
    \/ \E id \in InterfaceIds : import_interface(id)
    \/ \E id \in InterfaceIds : export_interface(id)
    \/ \E nonempty \in BOOLEAN : import_funcs(nonempty)
    \/ \E nonempty \in BOOLEAN : import_types(nonempty)
    \/ \E nonempty \in BOOLEAN : export_funcs(nonempty)
    \/ finish

Spec == Init /\ [][Next]_vars

-----------------------------------------------------------------------------
(* The context API (pub fn of ScalaContext, resource.rs and interface.rs)  *)
(* called directly, as the unit tests do: a context is created, it is put  *)
(* in an interface or not, and one rendering call is made, which records   *)
(* its arguments and its result in out.                                    *)

GenVars == <<imports, exports, has_world_imports, has_world_exports, files,
             status, calls, renderLog>>

TypeInputs ==
    {Prim(k) : k \in PrimKinds} \cup {TId(i) : i \in TypeIds} \cup {ErrorContext}

\* No rendering call has been made yet.
Idle == out.op = "none"

set_current_interface(interface_id) ==
    /\ Idle
    /\ current_interface' = interface_id
    /\ UNCHANGED <<GenVars, out>>

CallRenderType(ty) ==
    /\ Idle
    /\ out' = [op |-> "render_type", cur |-> current_interface, ty |-> ty,
               res |-> render_type(current_interface, ty)]
    /\ UNCHANGED <<GenVars, current_interface>>

CallRenderTypedef(id) ==
    /\ Idle
    /\ out' = [op |-> "render_typedef", cur |-> current_interface, id |-> id,
               res |-> render_typedef(current_interface, id)]
    /\ UNCHANGED <<GenVars, current_interface>>

\* A flags declaration with n flags f0, f1, ...
FlagsOf(n) == [tag |-> "flags", flags |-> [i \in 1..n |-> <<"f">> \o Decimal(i - 1)]]

CallRenderFlags(n) ==
    /\ Idle
    /\ out' = [op |-> "render_flags", n |-> n,
               res |-> render_flags(<<"P","e","r","m","s">>, FlagsOf(n), None)]
    /\ UNCHANGED <<GenVars, current_interface>>

CallRenderFunction(i, k, is_import) ==
    /\ Idle
    /\ IsSome(Interfaces[i].name)
    /\ k \in 1..Len(Interfaces[i].functions)
    /\ out' = [op |-> "render_function", cur |-> current_interface,
               interface |-> i, func |-> k, is_import |-> is_import,
               res |-> render_function(current_interface, Interfaces[i].functions[k],
                                       is_import, InterfaceNamespace(i))]
    /\ UNCHANGED <<GenVars, current_interface>>

CallRenderImportedResource(id) ==
    /\ Idle
    /\ Types[id].kind.tag = "resource"
    /\ out' = [op |-> "render_imported_resource", cur |-> current_interface, id |-> id,
               res |-> render_imported_resource(
                           current_interface, id,
                           InterfaceNamespace(Types[id].owner.id))]
    /\ UNCHANGED <<GenVars, current_interface>>

CallRenderInterface(id, is_import) ==
    /\ Idle
    /\ IsSome(Interfaces[id].name)
    /\ current_interface' = InterfaceRenderCur(id)
    /\ out' = [op |-> "render_interface", id |-> id, is_import |-> is_import,
               res |-> render_interface(id, InterfaceNamespace(id), is_import)]
    /\ UNCHANGED GenVars

\* render_primitive_type takes &mut self and leaves the context as it is.
CallRenderPrimitiveType(ty) ==
    /\ Idle
    /\ current_interface' = current_interface
    /\ out' = [op |-> "render_primitive_type", ty |-> ty,
               cur |-> current_interface, cur_after |-> current_interface',
               res |-> render_primitive_type(ty)]
    /\ UNCHANGED GenVars

\* Documentation texts: one line, several lines with a blank and a
\* whitespace-only line between them, lines ending in CR LF, a text that
\* begins and ends with blank lines, an indented first line, and texts
\* without any content
DocInputs ==
    {<<"M","o","v","e","s"," ","a"," ","p","o","i","n","t",".">>,
     <<"A"," ","p","o","i","n","t",".","\n","\n","T","w","o"," ","i","n","t","s",".","\n">>,
     <<"F","i","r","s","t",".","\n"," "," ","\n"," "," ","S","e","c","o","n","d"," ","i","s"," ","i","n","d","e","n","t","e","d",".","\n","T","h","i","r","d",".">>,
     <<"O","n","e",".","\r","\n","T","w","o",".","\r","\n">>,
     <<"\n","\n","A","f","t","e","r"," ","b","l","a","n","k"," ","l","i","n","e","s",".","\n","\n">>,
     <<" "," ","I","n","d","e","n","t","e","d",".">>,
     <<>>,
     <<" ","\n">>}

Indents == {0, 2}

CallFormatDocs(text, indent) ==
    /\ Idle
    /\ out' = [op |-> "format_docs", text |-> text, indent |-> indent,
               res |-> format_docs_with_indent(Some(text), indent)]
    /\ UNCHANGED <<GenVars, current_interface>>

\* Namespace strings by their parts: package namespace, package name,
\* interface name and version; the version is written after the interface
\* (as import_interface writes it) or after the package name.
NsInput(ns, pkg, iface, version, on_package) ==
    [pkg_name |-> [namespace |-> ns, name |-> pkg, version |-> version],
     iface |-> iface, on_package |-> on_package]

NamespaceInputs ==
    {NsInput(<<"w","a","s","i">>, <<"i","o">>, <<"s","t","r","e","a","m","s">>, Some(<<"0",".","2",".","0">>), FALSE),
     NsInput(<<"w","a","s","i">>, <<"i","o">>, <<"s","t","r","e","a","m","s">>, Some(<<"0",".","2",".","0">>), TRUE),
     NsInput(<<"s","c","a","l","a","-","w","a","s","m">>, <<"s","c","a","l","a","-","w","a","s","m">>, <<"f","o","o","-","b","a","r">>, Some(<<"0",".","2",".","0">>), FALSE),
     NsInput(<<"m","y">>, <<"a","p","p">>, <<"h","a","n","d","l","e","r">>, Some(<<"1",".","0",".","0","-","r","c",".","1">>), FALSE),
     NsInput(<<"e","x","a","m","p","l","e">>, <<"a","p","i">>, <<"b","a","s","i","c">>, None, FALSE),
     NsInput(<<"m","y","-","o","r","g">>, <<"g","e","o","-","l","i","b">>, <<"s","h","a","p","e","s">>, None, FALSE)}

NamespaceText(n) ==
    IF n.on_package
    THEN Concat(<<n.pkg_name.namespace, <<":">>, n.pkg_name.name,
                  VersionSuffix(n.pkg_name), <<"/">>, n.iface>>)
    ELSE PackagedNamespace(n.pkg_name, n.iface)

CallGetPackagePath(n, is_import) ==
    /\ Idle
    /\ out' = [op |-> "get_package_path", input |-> n, is_import |-> is_import,
               namespace |-> NamespaceText(n),
               res |-> get_package_path(NamespaceText(n), is_import)]
    /\ UNCHANGED <<GenVars, current_interface>>

\* The names the conversions are called on: kebab-case names, reserved words
\* and names whose cased form is a reserved word
NameInputs ==
    {<<"k","e","b","a","b","-","c","a","s","e","-","n","a","m","e">>, <<"t","y","p","e">>, <<"t","y","p","e","-","n","a","m","e">>, <<"c","l","a","s","s">>, <<"c","l","a","s","s","-","n","a","m","e">>,
     <<"v","a","l">>, <<"f","o","r","-","s","o","m","e">>, <<"h","a","s","h","-","c","o","d","e">>, <<"t","o","-","s","t","r","i","n","g">>, <<"g","e","t","-","c","l","a","s","s">>,
     <<"n","o","r","m","a","l">>, <<"x">>}

Conversions == {"camel", "pascal", "snake"}

Convert(conv, name) ==
    CASE conv = "camel" -> to_camel_case(name)
      [] conv = "pascal" -> to_pascal_case(name)
      [] conv = "snake" -> to_snake_case(name)

CallConvert(conv, name) ==
    /\ Idle
    /\ out' = [op |-> "convert", conv |-> conv, name |-> name,
               res |-> Convert(conv, name)]
    /\ UNCHANGED <<GenVars, current_interface>>

\* Enums to render: a type name, its case names and its documentation
EnumNames == {<<"c","o","l","o","r">>, <<"f","i","l","e","-","t","y","p","e">>}

EnumCases ==
    {<<>>, <<<<"r","e","d">>, <<"g","r","e","e","n">>, <<"b","l","u","e">>>>, <<<<"t","y","p","e">>, <<"h","a","s","h","-","c","o","d","e">>>>,
     <<<<"b">>, <<"a">>, <<"b","-","a">>>>}

EnumDocs == {None, Some(<<"A"," ","c","o","l","o","u","r",".">>), Some(<<"K","i","n","d","s",".","\n","\n","O","f"," ","f","i","l","e","s",".">>)}

\* The variant with the cases of an enum, none of them with a payload
PayloadlessVariant(cases) ==
    [tag |-> "variant", cases |-> [i \in 1..Len(cases) |-> Field(cases[i], None)]]

\* render_enum and render_variant on an enum and on the variant of the same
\* name, documentation and case names
CallRenderEnum(name, cases, docs) ==
    /\ Idle
    /\ out' = [op |-> "render_enum", cur |-> current_interface,
               name |-> to_pascal_case(name), cases |-> cases, docs |-> docs,
               res |-> render_enum(to_pascal_case(name),
                                   [tag |-> "enum", cases |-> cases], docs),
               as_variant |-> render_variant(current_interface, to_pascal_case(name),
                                             PayloadlessVariant(cases), docs)]
    /\ UNCHANGED <<GenVars, current_interface>>

\* Records to render: a type name, its fields and its documentation
RecordNames == {<<"p","o","i","n","t">>, <<"u","s","e","r","-","p","r","o","f","i","l","e">>}

RecordFields ==
    {<<>>,
     <<Field(<<"x">>, Prim("s32")), Field(<<"y">>, Prim("s32"))>>,
     <<Field(<<"f","i","r","s","t","-","n","a","m","e">>, Prim("string")), Field(<<"t","y","p","e">>, TId(1)),
       Field(<<"h","o","m","e","-","a","t">>, TId(11)), Field(<<"a","g","e">>, Prim("u8"))>>}

RecordDocs == {None, Some(<<"A"," ","p","o","i","n","t",".","\n","\n","T","w","o"," ","i","n","t","s",".">>)}

CallRenderRecord(name, fields, docs) ==
    /\ Idle
    /\ out' = [op |-> "render_record", cur |-> current_interface,
               name |-> to_pascal_case(name), fields |-> fields, docs |-> docs,
               res |-> render_record(current_interface, to_pascal_case(name),
                                     [tag |-> "record", fields |-> fields], docs)]
    /\ UNCHANGED <<GenVars, current_interface>>

\* The package path and the file path of an interface, for the same namespace
\* and mode
CallGetInterfaceFilePath(n, is_import) ==
    /\ Idle
    /\ out' = [op |-> "get_interface_file_path", input |-> n, is_import |-> is_import,
               namespace |-> NamespaceText(n),
               package_path |-> get_package_path(NamespaceText(n), is_import),
               res |-> get_interface_file_path(NamespaceText(n), n.iface, is_import)]
    /\ UNCHANGED <<GenVars, current_interface>>

\* The package path and the file path of a world, for the same name and mode
CallGetWorldFilePath(world_name, is_import) ==
    /\ Idle
    /\ out' = [op |-> "get_world_file_path", world_name |-> world_name,
               is_import |-> is_import,
               package_path |-> get_world_package_path(world_name, is_import),
               res |-> get_world_file_path(world_name, is_import)]
    /\ UNCHANGED <<GenVars, current_interface>>

NextCtx ==
    \/ \E o \in {None} \cup {Some(i) : i \in InterfaceIds} : set_current_interface(o)
    \/ \E ty \in TypeInputs : CallRenderType(ty)
    \/ \E id \in TypeIds : CallRenderTypedef(id)
    \/ \E n \in 0..MaxFlags : CallRenderFlags(n)
    \/ \E i \in InterfaceIds, k \in 1..2, m \in BOOLEAN : CallRenderFunction(i, k, m)
    \/ \E id \in TypeIds : CallRenderImportedResource(id)
    \/ \E id \in InterfaceIds, m \in BOOLEAN : CallRenderInterface(id, m)
    \/ \E conv \in Conversions, name \in NameInputs : CallConvert(conv, name)
    \/ \E ty \in TypeInputs : CallRenderPrimitiveType(ty)
    \/ \E text \in DocInputs, indent \in Indents : CallFormatDocs(text, indent)
    \/ \E n \in NamespaceInputs, m \in BOOLEAN : CallGetPackagePath(n, m)
    \/ \E name \in EnumNames, cases \in EnumCases, docs \in EnumDocs :
           CallRenderEnum(name, cases, docs)
    \/ \E name \in RecordNames, fields \in RecordFields, docs \in RecordDocs :
           CallRenderRecord(name, fields, docs)
    \/ \E n \in NamespaceInputs, m \in BOOLEAN : CallGetInterfaceFilePath(n, m)
    \/ \E name \in NameInputs, m \in BOOLEAN : CallGetWorldFilePath(name, m)

SpecCtx == Init /\ [][NextCtx]_vars

-----------------------------------------------------------------------------
(* render_type step by step: one action per call of render_type, with the
   calls still to be made kept on a stack *)

\* A faulty variant of Callees: the fields of a record and the payloads of a
\* variant's cases are rendered too.
CalleesWithMembers(k) ==
    CASE k.tag \in {"list", "fixed-size-list", "option", "type"} -> <<k.ty>>
      [] k.tag = "result" -> k.ok \o k.err
      [] k.tag = "tuple" -> k.types
      [] k.tag = "record" -> [i \in 1..Len(k.fields) |-> k.fields[i].ty]
      [] k.tag = "variant" ->
            Concat([i \in 1..Len(k.cases) |-> k.cases[i].ty])
      [] OTHER -> <<>>

\* The render_type calls that render_type_id makes for a typedef of kind k
\* (ok and err of a result are options: a sequence of at most one type)
Callees(k) ==
    CASE k.tag \in {"list", "fixed-size-list", "option", "type"} -> <<k.ty>>
      [] k.tag = "result" -> k.ok \o k.err
      [] k.tag = "tuple" -> k.types
      [] OTHER -> <<>>

\* The calls pushed for the callees, each with the kind it is called from
Called(tys, from) == [i \in 1..Len(tys) |-> [ty |-> tys[i], from |-> from]]

\* The call panics in its own body: Type::ErrorContext, or a named kind
\* whose name (or whose foreign interface's name) is missing.
NameMissing(cur, named) ==
    \/ ~IsSome(named.name)
    \/ IsForeign(cur, named.owner) /\ ~IsSome(Interfaces[named.owner.id].name)

PanicsItself(cur, ty) ==
    \/ ty.tag = "error-context"
    \/ /\ ty.tag = "id"
       /\ Types[ty.id].kind.tag \in {"record", "variant", "enum", "flags", "handle", "resource"}
       /\ NameMissing(cur, Types[NamedId(ty.id, Types[ty.id].kind)])

\* The stack after the call on its top has run up to its own calls
AfterCall(cur, call, rest) ==
    IF PanicsItself(cur, call.ty) THEN <<>>
    ELSE IF call.ty.tag = "id"
    THEN Called(Callees(Types[call.ty.id].kind), Types[call.ty.id].kind.tag) \o rest
    ELSE rest

Rendering == out.op = "rendering"

BeginRenderType(ty) ==
    /\ Idle
    /\ out' = [op |-> "rendering", cur |-> current_interface, root |-> ty,
               stack |-> <<[ty |-> ty, from |-> "caller"]>>,
               entered |-> {}, panicked |-> FALSE]
    /\ UNCHANGED <<GenVars, current_interface>>

RenderTypeStep ==
    /\ Rendering
    /\ out.stack /= <<>>
    /\ out' = [out EXCEPT
                 !.stack = AfterCall(out.cur, Head(out.stack), Tail(out.stack)),
                 !.entered = @ \cup {Head(out.stack)},
                 !.panicked = PanicsItself(out.cur, Head(out.stack).ty)]
    /\ UNCHANGED <<GenVars, current_interface>>

NextRender ==
    \/ \E o \in {None} \cup {Some(i) : i \in InterfaceIds} : set_current_interface(o)
    \/ \E ty \in TypeInputs : BeginRenderType(ty)
    \/ RenderTypeStep

\* A call that was begun runs on: no other call of the context is
\* interleaved with it, and it needs no outside event to continue.
SpecRender == Init /\ [][NextRender]_vars /\ WF_vars(RenderTypeStep)

-----------------------------------------------------------------------------
(* Properties.  Those on out are stated on the call recorded last under     *)
(* SpecCtx; those on files, status and renderLog are stated under Spec.     *)

\* The positions at which p occurs in s
Occurrences(s, p) ==
    {i \in 1..(Len(s) - Len(p) + 1) : SubSeq(s, i, i + Len(p) - 1) = p}

FirstOf(positions) == CHOOSE i \in positions : \A j \in positions : i <= j

ReplaceAt(s, i, n, r) == SubSeq(s, 1, i - 1) \o r \o SubSeq(s, i + n, Len(s))

\* s with the first occurrence of p replaced by r (s itself without one)
ReplaceFirst(s, p, r) ==
    IF Occurrences(s, p) = {} THEN s
    ELSE ReplaceAt(s, FirstOf(Occurrences(s, p)), Len(p), r)

NamedKinds == {"record", "variant", "enum", "flags", "resource"}

\* The call recorded is render_type of a reference to a named type (directly
\* or through a handle to a named resource).
NamedReference ==
    /\ out.op = "render_type"
    /\ out.ty.tag = "id"
    /\ Types[out.ty.id].kind.tag \in NamedKinds \cup {"handle"}
    /\ IsSome(TypeKey(NamedId(out.ty.id, Types[out.ty.id].kind)))

\* The named type the recorded reference denotes, and its owner
Referenced == Types[NamedId(out.ty.id, Types[out.ty.id].kind)]

OwnedElsewhere ==
    /\ Referenced.owner.tag = "interface"
    /\ IsSome(out.cur)
    /\ Referenced.owner.id /= Unwrap(out.cur)

\* base package, then the snake_case package namespace, package name and
\* interface name, then the PascalCase type name, joined by dots
PathOf(pkg_name, interface_name, type_name) ==
    Concat(<<BasePackage, <<".">>, to_snake_case(pkg_name.namespace), <<".">>,
             to_snake_case(pkg_name.name), <<".">>, to_snake_case(interface_name),
             <<".">>, to_pascal_case(type_name)>>)

PathInto(interface, type_name) ==
    PathOf(Packages[Unwrap(interface.package)], Unwrap(interface.name), type_name)

C2_ResetBetweenScopes ==
    \A e \in renderLog : e.scope = "world" => e.cur = None

\* The export file of an interface, as export_interface names it
ExportPathOf(id) ==
    get_interface_file_path(InterfaceNamespace(id), Unwrap(Interfaces[id].name), FALSE)

HasResource(id) ==
    \E i \in 1..Len(Interfaces[id].types) :
        Types[Interfaces[id].types[i]].kind.tag = "resource"

FilePaths == {files[i][1] : i \in 1..Len(files)}

ExportRendered(id) ==
    \E e \in renderLog : e.scope = "interface" /\ e.id = id /\ ~e.is_import

IntBits == 32

\* 1 << i evaluated in an Int of IntBits bits: the shift count is taken
\* modulo the width, and the top bit is the sign.
ShlInt(i) ==
    IF i % IntBits = IntBits - 1
    THEN (-(2 ^ (IntBits - 2))) - 2 ^ (IntBits - 2)
    ELSE 2 ^ (i % IntBits)

\* 2^i is a value of an Int of IntBits bits
PowerFits(i) == i <= IntBits - 2

IsValLine(l) == StartsWith(l, <<" "," ","v","a","l"," ">>)
ValLines(text) == SelectSeq(Lines(text), IsValLine)

\* The constant of the flag declared at index i (counted from 0)
FlagConstant(name, flag_name, i) ==
    Concat(<<<<" "," ","v","a","l"," ">>, to_camel_case(flag_name), <<" ","="," ">>, name,
             <<"(","1"," ","<","<"," ">>, Decimal(i), <<")">>>>)

ConstantsInOrder(name, flags, text) ==
    ValLines(text) = [i \in 1..Len(flags) |-> FlagConstant(name, flags[i], i - 1)]

\* C4 as the specification states it: a flags type with n flags gets exactly n
\* constants in declaration order, the i-th written 1 << i, and evaluated in
\* the wrapper's Int they are 1, 2, 4, ..., 2^(n-1), pairwise distinct.
C4_DistinctPowersOfTwo ==
    out.op = "render_flags" =>
        /\ ConstantsInOrder(<<"P","e","r","m","s">>, FlagsOf(out.n).flags, out.res)
        /\ \A i \in 0..(out.n - 1) : PowerFits(i) /\ ShlInt(i) = 2 ^ i
        /\ \A i, j \in 0..(out.n - 1) : i /= j => ShlInt(i) /= ShlInt(j)

\* C5 as the specification states it: importing resource counter with
\* constructor(initial: s32), increment() and value() -> s32 gives a trait
\* Counter with the methods increment and value and a destructor, and a
\* companion Counter whose apply(initial: Int) returns Counter.
C5_CounterScenario ==
    (out.op = "render_interface" /\ out.id = 3 /\ out.is_import) =>
        /\ Occurrences(out.res, <<"t","r","a","i","t"," ","C","o","u","n","t","e","r"," ","{">>) /= {}
        /\ Occurrences(out.res, <<"d","e","f"," ","i","n","c","r","e","m","e","n","t","(">>) /= {}
        /\ Occurrences(out.res, <<"d","e","f"," ","v","a","l","u","e","(">>) /= {}
        /\ Occurrences(out.res, <<"d","e","f"," ","c","l","o","s","e","(",")",":"," ","U","n","i","t">>) /= {}
        /\ Occurrences(out.res, <<"o","b","j","e","c","t"," ","C","o","u","n","t","e","r"," ","{">>) /= {}
        /\ Occurrences(out.res, <<"d","e","f"," ","a","p","p","l","y","(","i","n","i","t","i","a","l",":"," ","I","n","t",")",":"," ","C","o","u","n","t","e","r">>) /= {}

\* The function of the recorded render_function call, and its namespace
CalledFunction == Interfaces[out.interface].functions[out.func]
CalledNamespace == InterfaceNamespace(out.interface)

\* An import fragment with the annotation family changed and the native
\* marker taken out
AsExport(fragment) ==
    ReplaceFirst(ReplaceFirst(fragment, <<".","W","i","t","I","m","p","o","r","t","(">>, <<".","W","i","t","E","x","p","o","r","t","(">>),
                 <<" ","="," ">> \o native_marker, <<>>)

SameButFamilyAndMarker(imp, exp) ==
    IF imp = PANIC \/ exp = PANIC THEN imp = exp
    ELSE /\ Occurrences(imp, <<".","W","i","t","I","m","p","o","r","t","(">>) /= {}
         /\ Occurrences(imp, <<" ","="," ">> \o native_marker) /= {}
         /\ AsExport(imp) = exp
         /\ Occurrences(exp, native_marker) = {}
         /\ Occurrences(exp, <<" ","="," ">>) = {}

\* C6: for every function, namespace and context, the import fragment and the
\* export fragment of the function are the same text but for the annotation
\* family (WitImport, WitExport) and the native marker, which only the import
\* fragment has; the export fragment is a signature without a body, and a
\* function without a result is declared Unit in both.
C6_ImportExportDiffer ==
    out.op = "render_function" =>
        /\ out.res = render_function(out.cur, CalledFunction, out.is_import,
                                     CalledNamespace)
        /\ SameButFamilyAndMarker(
               render_function(out.cur, CalledFunction, TRUE, CalledNamespace),
               render_function(out.cur, CalledFunction, FALSE, CalledNamespace))
        /\ ~IsSome(CalledFunction.result) =>
               Occurrences(out.res, <<")",":"," ","U","n","i","t">>) /= {}

\* move-point of shapes, which has documentation, parameters and a result,
\* rendered for export in the context of another interface
C6_Witness ==
    /\ out.op = "render_function" /\ ~out.is_import
    /\ out.interface = 1 /\ out.func = 2 /\ out.cur = Some(2)
    /\ out.res /= PANIC
    /\ Occurrences(out.res, <<".","W","i","t","E","x","p","o","r","t","(","\"","m","y","-","o","r","g",":","g","e","o","-","l","i","b","/","s","h","a","p","e","s","\"",","," ","\"","m","o","v","e","-","p","o","i","n","t","\"",")">>) /= {}
    /\ Occurrences(out.res, <<"d","e","f"," ","m","o","v","e","P","o","i","n","t","(","p",":"," ">>) /= {}

Unrepresentable == {"future", "stream", "unknown"}

\* C7 as the specification states it: a type of kind future, stream or unknown
\* is never an error: a reference to it is rendered as Unknown, and the
\* declaration of a named typedef of such a kind completes with Unknown in it.
C7_UnknownNeverAborts ==
    /\ (out.op = "render_type" /\ out.ty.tag = "id"
        /\ Types[out.ty.id].kind.tag \in Unrepresentable) =>
           out.res = <<"U","n","k","n","o","w","n">>
    /\ (out.op = "render_typedef" /\ IsSome(TypeKey(out.id))
        /\ Types[out.id].kind.tag \in Unrepresentable) =>
           (out.res /= PANIC /\ Occurrences(out.res, <<"U","n","k","n","o","w","n">>) /= {})

\* A type that is or contains a reference to a type of a named kind that has no
\* name (for a handle, the resource it points to).
RECURSIVE NamelessNamed(_)
NamelessNamedKind(id, k) ==
    CASE k.tag \in NamedKinds \cup {"handle"} -> ~IsSome(TypeKey(NamedId(id, k)))
      [] k.tag \in {"list", "option", "fixed-size-list", "type"} -> NamelessNamed(k.ty)
      [] k.tag = "result" ->
            \/ (IsSome(k.ok) /\ NamelessNamed(Unwrap(k.ok)))
            \/ (IsSome(k.err) /\ NamelessNamed(Unwrap(k.err)))
      [] k.tag = "tuple" -> \E i \in 1..Len(k.types) : NamelessNamed(k.types[i])
      [] OTHER -> FALSE
NamelessNamed(ty) ==
    ty.tag = "id" /\ NamelessNamedKind(ty.id, Types[ty.id].kind)

\* C8 as the specification states it: render_type aborts only when a named
\* kind (record, variant, enum, flags, resource) has no name; no other type
\* and no context state makes it abort.
C8_AbortsOnlyOnMissingName ==
    (out.op = "render_type" /\ out.res = PANIC) => NamelessNamed(out.ty)

\* A function of kind Method, Constructor or Static whose resource is not a
\* resource among the types of the interface.
Inconsistent(interface, f) ==
    /\ IsResourceFunction(f)
    /\ ~\E i \in 1..Len(interface.types) :
            /\ interface.types[i] = f.kind.id
            /\ Types[f.kind.id].kind.tag = "resource"

HasInconsistentFunction(interface) ==
    \E i \in 1..Len(interface.functions) :
        Inconsistent(interface, interface.functions[i])

\* C9 as the specification states it: rendering an interface that has a
\* Method, Constructor or Static function whose resource is not a resource of
\* the interface always aborts; it never completes with the function left out.
C9_InconsistentResourceIsFatal ==
    (out.op = "render_interface" /\ HasInconsistentFunction(Interfaces[out.id])) =>
        out.res = PANIC

OwnedHere ==
    Referenced.owner.tag = "interface" /\ out.cur = Some(Referenced.owner.id)

\* The current interface is another one that has the owner's name.
Namesake ==
    /\ OwnedElsewhere
    /\ Interfaces[Unwrap(out.cur)].name = Interfaces[Referenced.owner.id].name
    /\ IsSome(Interfaces[Referenced.owner.id].name)
    /\ IsSome(Interfaces[Referenced.owner.id].package)

\* C10: a reference to a named type owned by the current interface, and every
\* reference to a named type rendered without a current interface, is the
\* bare PascalCase type name with no dot in it; the interfaces are compared by
\* identity: a type of another interface that has the current one's name is
\* rendered as a dotted path.
C10_BareInOwnInterface ==
    NamedReference =>
        /\ (OwnedHere \/ out.cur = None) =>
               /\ out.res = to_pascal_case(Unwrap(Referenced.name))
               /\ Occurrences(out.res, <<".">>) = {}
        /\ Namesake => Occurrences(out.res, <<".">>) /= {}

\* point of my-org:geo-lib/shapes referenced in my-org:geo-lib/shapes
C10_Witness ==
    /\ NamedReference /\ OwnedHere
    /\ out.cur = Some(1) /\ out.ty = TId(1)
    /\ out.res = <<"P","o","i","n","t">>

\* The destructor as the trait holds it: the resource-drop annotation, then
\* close(): Unit with the native marker
Destructor ==
    Concat(<<<<" "," ">>, component_resource_drop, <<"\n">>,
             <<" "," ","d","e","f"," ","c","l","o","s","e","(",")",":"," ","U","n","i","t"," ","="," ">>, native_marker, <<"\n">>>>)

\* The text of the trait: up to the line that opens the companion object
TraitPart(text, scala_name) ==
    SubSeq(text, 1, FirstOf(Occurrences(text, <<"}","\n","o","b","j","e","c","t"," ">> \o scala_name \o <<" ","{","\n">>)))

\* The recorded call rendered a resource that has a name.
RenderedResource ==
    out.op = "render_imported_resource" /\ IsSome(Types[out.id].name)

\* C11: the trait rendered for an imported resource holds exactly one
\* destructor, close(): Unit with the resource-drop annotation and the native
\* marker, whatever functions the schema gives the resource; it is the
\* trait's last member, and no other close() is declared in the text.
C11_OneDestructor ==
    RenderedResource =>
        /\ out.res /= PANIC
        /\ Cardinality(Occurrences(
               TraitPart(out.res, to_pascal_case(Unwrap(Types[out.id].name))),
               Destructor)) = 1
        /\ Cardinality(Occurrences(out.res, <<"d","e","f"," ","c","l","o","s","e","(">>)) = 1
        /\ Cardinality(Occurrences(out.res, component_resource_drop)) = 1

\* blob, which has no function at all: the trait holds the destructor only
C11_Witness ==
    /\ RenderedResource /\ out.id = 31
    /\ Occurrences(out.res, <<"t","r","a","i","t"," ","B","l","o","b"," ","{","\n">> \o Destructor \o <<"}","\n","o","b","j","e","c","t"," ","B","l","o","b"," ","{","\n","}","\n">>) /= {}

\* The cased form of a name, before any escaping
Cased(conv, name) ==
    CASE conv = "camel" -> HeckLowerCamel(name)
      [] conv = "pascal" -> HeckPascal(name)
      [] conv = "snake" -> HeckSnake(name)

Escaped(name) == <<BQ>> \o name \o <<BQ>>

\* C12 as the specification states it: each of the three conversions
\* (camelCase, PascalCase, snake_case) returns the cased name wrapped in
\* backticks if and only if the cased name is a reserved word, and the bare
\* cased name otherwise.
C12_EscapedIffKeyword ==
    out.op = "convert" =>
        out.res = IF Cased(out.conv, out.name) \in Keywords
                  THEN Escaped(Cased(out.conv, out.name))
                  ELSE Cased(out.conv, out.name)

\* The unsigned kinds and the library wrapper each is rendered as
UnsignedWrapper ==
    [u8 |-> <<"U","B","y","t","e">>, u16 |-> <<"U","S","h","o","r","t">>, u32 |-> <<"U","I","n","t">>, u64 |-> <<"U","L","o","n","g">>]

EndsWith(s, p) == Len(s) >= Len(p) /\ SubSeq(s, Len(s) - Len(p) + 1, Len(s)) = p

PrimitiveTokens == {render_primitive_type(Prim(k)) : k \in PrimKinds}

\* C13: render_primitive_type gives every primitive kind a type token,
\* distinct kinds get distinct tokens, the unsigned kinds get the library
\* wrappers UByte, UShort, UInt and ULong, the call leaves the context as it
\* was and its result depends on the kind only, and on a type that is not a
\* primitive it aborts.
C13_PrimitiveMapping ==
    out.op = "render_primitive_type" =>
        /\ out.cur_after = out.cur
        /\ out.res = render_primitive_type(out.ty)
        /\ IF out.ty.tag = "prim"
           THEN /\ out.res /= PANIC /\ out.res /= <<>>
                /\ \A k \in PrimKinds \ {out.ty.kind} :
                       render_primitive_type(Prim(k)) /= out.res
                /\ out.ty.kind \in DOMAIN UnsignedWrapper =>
                       EndsWith(out.res, <<".","u","n","s","i","g","n","e","d",".">> \o UnsignedWrapper[out.ty.kind])
           ELSE out.res = PANIC
        /\ PANIC \notin PrimitiveTokens
        /\ Cardinality(PrimitiveTokens) = Cardinality(PrimKinds)

\* u32 in the context of an interface
C13_Witness ==
    /\ out.op = "render_primitive_type" /\ out.ty = Prim("u32")
    /\ out.cur = Some(1)
    /\ out.res = <<"s","c","a","l","a",".","s","c","a","l","a","j","s",".","w","i","t",".","u","n","s","i","g","n","e","d",".","U","I","n","t">>

\* The line the block holds for line i of the lines ls
DocLine(ls, i, indent_str) ==
    IF i = 1 THEN Concat(<<indent_str, <<"/","*","*"," ">>, ls[1]>>)
    ELSE IF Trim(ls[i]) = <<>> THEN indent_str \o <<" ","*">>
    ELSE Concat(<<indent_str, <<" ","*"," "," ">>, ls[i]>>)

\* The block has one line per line of ls, in order, and then the closing line.
LineForLine(ls, block, indent_str) ==
    /\ Len(block) = Len(ls) + 1
    /\ \A i \in 1..Len(ls) : block[i] = DocLine(ls, i, indent_str)
    /\ block[Len(block)] = indent_str \o <<" ","*","/">>

\* C14 as the specification states it: for every documentation text with k
\* lines the block has k + 1 lines, line i for line i of the text (after the
\* opening marker, the continuation marker, or as a bare marker when blank),
\* then the closing line: no line of the text is dropped, merged or reordered.
C14_LineForLine ==
    out.op = "format_docs" =>
        LineForLine(Lines(out.text), Lines(out.res), Spaces(out.indent))

\* C14, amended: the text is first trimmed of leading and trailing
\* whitespace (blank lines included); a text with nothing left gives no
\* block at all, and otherwise the block has one line per line of the trimmed
\* text, in order, then the closing line, each line ended by a line feed.
C14_LineForLineOfTrimmed ==
    out.op = "format_docs" =>
        IF Trim(out.text) = <<>> THEN out.res = <<>>
        ELSE /\ LineForLine(Lines(Trim(out.text)), Lines(out.res), Spaces(out.indent))
             /\ out.res[Len(out.res)] = "\n"
             /\ Len(Lines(out.res)) = Cardinality(Occurrences(out.res, <<"\n">>))

\* three lines with a whitespace-only line between them, indented by two
C14_Witness ==
    /\ out.op = "format_docs" /\ out.indent = 2
    /\ out.text = <<"F","i","r","s","t",".","\n"," "," ","\n"," "," ","S","e","c","o","n","d"," ","i","s"," ","i","n","d","e","n","t","e","d",".","\n","T","h","i","r","d",".">>
    /\ out.res = <<" "," ","/","*","*"," ","F","i","r","s","t",".","\n"," "," "," ","*","\n"," "," "," ","*"," "," "," "," ","S","e","c","o","n","d"," ","i","s"," ","i","n","d","e","n","t","e","d",".","\n"," "," "," ","*"," "," ","T","h","i","r","d",".","\n"," "," "," ","*","/","\n">>

\* The contents pushed under a path
Pushed(path) == {files[i][2] : i \in {j \in 1..Len(files) : files[j][1] = path}}

\* The text declares every top-level type and every top-level function.
DeclaresAll(text, type_ids, funcs) ==
    /\ \A i \in 1..Len(type_ids) :
           Occurrences(text, to_pascal_case(Unwrap(Types[type_ids[i]].name))) /= {}
    /\ \A i \in 1..Len(funcs) :
           Occurrences(text, <<"d","e","f"," ">> \o to_camel_case(funcs[i].name) \o <<"(">>) /= {}

\* The world file of a direction was pushed and declares every top-level item.
WorldFilePushed(is_import, type_ids, funcs) ==
    /\ Pushed(get_world_file_path(World.name, is_import)) /= {}
    /\ \A text \in Pushed(get_world_file_path(World.name, is_import)) :
           DeclaresAll(text, type_ids, funcs)

\* C15 as the specification states it: when the generator was told of
\* top-level imports (functions or types) of the world, a finished run has
\* pushed the world import file, and the file declares each top-level imported
\* type and function; likewise the world export file for top-level exports.
C15_WorldItemsGenerated ==
    status = "finished" =>
        /\ has_world_imports =>
               WorldFilePushed(TRUE, World.import_types, World.import_funcs)
        /\ has_world_exports =>
               WorldFilePushed(FALSE, World.export_types, World.export_funcs)

\* The segments C16 names: the base package, exports for an export, the
\* snake_case package namespace and the snake_case package name
ExpectedSegments(pkg_name, is_import) ==
    Split(BasePackage, ".")
    \o (IF is_import THEN <<>> ELSE <<<<"e","x","p","o","r","t","s">>>>)
    \o <<HeckSnake(pkg_name.namespace), HeckSnake(pkg_name.name)>>

\* C16: for a namespace ns:pkg/iface, with or without a version,
\* get_package_path is the dot-joined base package, then exports exactly when
\* exporting, then snake_case(ns) and snake_case(pkg); there is no segment
\* for the interface, and the version is not in the result.
C16_PackagePath ==
    out.op = "get_package_path" =>
        /\ out.res = Join(ExpectedSegments(out.input.pkg_name, out.is_import), <<".">>)
        /\ Split(out.res, ".") = ExpectedSegments(out.input.pkg_name, out.is_import)
        /\ (<<"e","x","p","o","r","t","s">> \in Range(Split(out.res, "."))) <=> ~out.is_import
        /\ HeckSnake(out.input.iface) \notin Range(Split(out.res, "."))
        /\ IsSome(out.input.pkg_name.version) =>
               /\ Occurrences(out.res, Unwrap(out.input.pkg_name.version)) = {}
               /\ Occurrences(out.res, HeckSnake(Unwrap(out.input.pkg_name.version))) = {}
               /\ Occurrences(out.res, <<"@">>) = {}

\* scala-wasm:scala-wasm/foo-bar@0.2.0, exported
C16_Witness ==
    /\ out.op = "get_package_path" /\ ~out.is_import
    /\ out.namespace = <<"s","c","a","l","a","-","w","a","s","m",":","s","c","a","l","a","-","w","a","s","m","/","f","o","o","-","b","a","r","@","0",".","2",".","0">>
    /\ out.res = <<"c","o","m",".","e","x","a","m","p","l","e",".","e","x","p","o","r","t","s",".","s","c","a","l","a","_","w","a","s","m",".","s","c","a","l","a","_","w","a","s","m">>

\* The kinds render_type_id renders by rendering other types
ComposedKinds == {"list", "fixed-size-list", "option", "result", "tuple", "type"}

\* Every call of render_type is the caller's or comes from a composed kind:
\* none comes from the fields or cases of a named type.
OnlyThroughComposed ==
    Rendering =>
        \A i \in 1..Len(out.stack) : out.stack[i].from \in ComposedKinds \cup {"caller"}

\* When all calls are made, the rendering has panicked exactly when
\* render_type of the root gives no text.
EndsAsRenderType ==
    (Rendering /\ out.stack = <<>>) =>
        (out.panicked <=> render_type(out.cur, out.root) = PANIC)

\* C17: every rendering of a type expression that is begun comes to an end,
\* also for named records and variants that refer to each other, because
\* render_type only calls itself for the children of list, fixed-size list,
\* option, result, tuple and alias typedefs and never for the fields or cases
\* of a named type.
C17_RenderTypeTerminates ==
    /\ []OnlyThroughComposed
    /\ []EndsAsRenderType
    /\ Rendering ~> (Rendering /\ out.stack = <<>>)

\* option<edge>, where edge and node refer to each other, rendered to the
\* end: the option and edge were entered, node was not
C17_Witness ==
    /\ Rendering /\ out.root = TId(37) /\ out.stack = <<>> /\ ~out.panicked
    /\ out.entered = {[ty |-> TId(37), from |-> "caller"], [ty |-> TId(36), from |-> "option"]}

\* The interface renderings the run has made
InterfaceRenderings == {e \in renderLog : e.scope = "interface"}

\* The file pushed last: interface files are pushed one at a time and files
\* only grows, so every interface file is the last one in the state that its
\* push leads to.
LastPushed == files[Len(files)]

\* The file of each named interface in each mode and its text rendered with
\* the interface itself as the current one
TextsInItself ==
    [id \in {i \in InterfaceIds : IsSome(Interfaces[i].name)} |->
        [is_import \in BOOLEAN |->
            [file_path |-> get_interface_file_path(InterfaceNamespace(id),
                                                   Unwrap(Interfaces[id].name), is_import),
             content |-> InterfaceText(Some(id), Interfaces[id],
                                       InterfaceNamespace(id), is_import)]]]

\* The file pushed last is the file of the rendering and holds the text of
\* the interface rendered with the interface itself as the current one.
RenderedInItself(e) ==
    /\ LastPushed[1] = TextsInItself[e.id][e.is_import].file_path
    /\ LastPushed[2] = TextsInItself[e.id][e.is_import].content

\* The file pushed last is the file of an interface rendering.
InterfaceFilePushedLast ==
    \E e \in InterfaceRenderings :
        LastPushed[1] = TextsInItself[e.id][e.is_import].file_path

\* The file pushed for shapes names its sibling point bare and point of the
\* other shapes interface by its path.
ShapesReferences(text) ==
    /\ Occurrences(text, <<"S","e","g","m","e","n","t","(","f","r","o","m",":"," ","P","o","i","n","t",","," ","t","o",":"," ","c","o","m",".","e","x","a","m","p","l","e",".","o","t","h","e","r",".","g","e","o","_","l","i","b",".","s","h","a","p","e","s",".","P","o","i","n","t",")">>) /= {}
    /\ Occurrences(text, <<"(","p",":"," ","P","o","i","n","t",","," ","b","y",":"," ","c","o","m",".","e","x","a","m","p","l","e",".","o","t","h","e","r",".","g","e","o","_","l","i","b",".","s","h","a","p","e","s",".","P","o","i","n","t",")",":"," ","P","o","i","n","t">>) /= {}

\* C18: every interface is rendered with itself as the current interface,
\* whatever was rendered on the context before: the types of its typedefs,
\* resource members and functions are rendered in that context, so a sibling
\* type is named bare and a type of another interface by its path.
C18_RenderedInOwnContext ==
    /\ \A e \in InterfaceRenderings : e.cur = Some(e.id)
    /\ files /= <<>> =>
        /\ InterfaceFilePushedLast => \E e \in InterfaceRenderings : RenderedInItself(e)
        /\ \A is_import \in BOOLEAN :
               LastPushed[1] = get_interface_file_path(InterfaceNamespace(1), <<"s","h","a","p","e","s">>,
                                                       is_import)
                   => ShapesReferences(LastPushed[2])
        /\ LastPushed[1] = get_interface_file_path(InterfaceNamespace(3), <<"c","o","u","n","t","e","r","s">>, TRUE)
               => Occurrences(LastPushed[2],
                              <<"d","e","f"," ","m","e","t","h","o","d","C","o","u","n","t","e","r","V","a","l","u","e","(","s","e","l","f",":"," ","C","o","u","n","t","e","r",")",":"," ","I","n","t">>) /= {}

\* canvas imported after counters: point of shapes by its path, the
\* siblings node and edge bare
C18_Witness ==
    /\ imports = {3, 9} /\ current_interface = Some(9) /\ Len(files) = 2
    /\ Occurrences(files[2][2], <<"d","e","f"," ","d","r","a","w","(","a","t",":"," ","c","o","m",".","e","x","a","m","p","l","e",".","m","y","_","o","r","g",".","g","e","o","_","l","i","b",".","s","h","a","p","e","s",".","P","o","i","n","t",")",":"," ","U","n","i","t">>) /= {}
    /\ Occurrences(files[2][2], <<"f","i","n","a","l"," ","c","a","s","e"," ","c","l","a","s","s"," ","N","o","d","e","(","n","e","x","t",":"," ","j","a","v","a",".","u","t","i","l",".","O","p","t","i","o","n","a","l","[","E","d","g","e","]",")">>) /= {}
    /\ Occurrences(files[1][2], <<"d","e","f"," ","m","e","t","h","o","d","C","o","u","n","t","e","r","V","a","l","u","e","(","s","e","l","f",":"," ","C","o","u","n","t","e","r",")",":"," ","I","n","t">>) /= {}

\* Every line of a text (each ends with a line feed) indented by two spaces
IndentedByTwo(text) ==
    IF text = PANIC THEN PANIC
    ELSE Concat([i \in 1..(Len(Split(text, "\n")) - 1) |->
                    <<" "," ">> \o Split(text, "\n")[i] \o <<"\n">>])

\* The methods of a resource: the functions of its owning interface of kind
\* Method(resource), in declaration order
MethodsOf(resource_id) ==
    SelectSeq(OwnerFunctions(Types[resource_id].owner),
              LAMBDA f : f.kind.tag = "method" /\ f.kind.id = resource_id)

\* A method as the function signature renderer renders it for an import
MethodAsImport(cur, f, namespace) == render_function(cur, f, TRUE, namespace)

\* The same, under the resource-method annotation (the schema function name
\* alone) in place of the import annotation (namespace and name)
MethodAsResourceMethod(cur, f, namespace) ==
    IF MethodAsImport(cur, f, namespace) = PANIC THEN PANIC
    ELSE ReplaceFirst(MethodAsImport(cur, f, namespace),
                      component_import(namespace, f.name),
                      component_resource_method(f.name))

\* The members of the trait before its destructor
MembersBeforeDestructor(text, scala_name) ==
    SubSeq(text,
           FirstOf(Occurrences(text, <<"t","r","a","i","t"," ">> \o scala_name \o <<" ","{","\n">>))
               + Len(<<"t","r","a","i","t"," ">> \o scala_name \o <<" ","{","\n">>),
           FirstOf(Occurrences(text, Destructor)) - 1)

RenderedResourceText == RenderedResource /\ out.res /= PANIC

RenderedNamespace == InterfaceNamespace(Types[out.id].owner.id)

RenderedScalaName == to_pascal_case(Unwrap(Types[out.id].name))

\* C19 as the specification states it: each method of the resource stands in
\* the trait as its import-mode rendering by the function signature renderer
\* (documentation, import annotation with namespace and schema function name,
\* signature, native marker), every line indented by two spaces.
C19_MethodIsImportRendering ==
    RenderedResourceText =>
        \A i \in 1..Len(MethodsOf(out.id)) :
            Occurrences(TraitPart(out.res, RenderedScalaName),
                        IndentedByTwo(MethodAsImport(out.cur, MethodsOf(out.id)[i],
                                                     RenderedNamespace))) /= {}

\* C19 as the code has it: the members of the trait before the destructor are
\* the methods of the resource in declaration order, each the import-mode
\* rendering of the function with the resource-method annotation (schema
\* function name, no namespace) in place of the import annotation, every
\* line indented by two spaces.
C19_MethodIsImportRenderingUnderResourceAnnotation ==
    RenderedResourceText =>
        MembersBeforeDestructor(out.res, RenderedScalaName)
            = Concat([i \in 1..Len(MethodsOf(out.id)) |->
                         IndentedByTwo(MethodAsResourceMethod(
                             out.cur, MethodsOf(out.id)[i], RenderedNamespace))])

\* store, whose method get has a documentation of three lines
C19_Witness ==
    /\ RenderedResourceText /\ out.id = 32
    /\ Occurrences(out.res,
           <<" "," ","/","*","*"," ","R","e","a","d","s"," ","a"," ","k","e","y",".","\n"," "," "," ","*","\n"," "," "," ","*"," "," ","T","h","e"," ","k","e","y"," ","m","u","s","t"," ","e","x","i","s","t",".","\n"," "," "," ","*","/","\n"," "," ","@","s","c","a","l","a",".","s","c","a","l","a","j","s",".","w","i","t",".","a","n","n","o","t","a","t","i","o","n",".","W","i","t","R","e","s","o","u","r","c","e","M","e","t","h","o","d","(","\"","[","m","e","t","h","o","d","]","s","t","o","r","e",".","g","e","t","\"",")","\n"," "," ","d","e","f"," ","m","e","t","h","o","d","S","t","o","r","e","G","e","t","(","s","e","l","f",":"," ","S","t","o","r","e",","," ","k","e","y",":"," ","S","t","r","i","n","g",")",":"," ","S","t","r","i","n","g"," ","="," ","s","c","a","l","a",".","s","c","a","l","a","j","s",".","w","i","t",".","n","a","t","i","v","e","\n">>) /= {}


\* The declaration of a sealed trait with singleton alternatives: the
\* documentation comment, the variant annotation, the trait, and in its
\* companion one case object per case, in declaration order
SealedWithSingletons(name, cases, docs) ==
    format_docs(docs)
    \o Concat([i \in 1..(3 + Len(cases) + 1) |->
                 (CASE i = 1 -> component_variant
                    [] i = 2 -> <<"s","e","a","l","e","d"," ","t","r","a","i","t"," ">> \o name
                    [] i = 3 -> <<"o","b","j","e","c","t"," ">> \o name \o <<" ","{">>
                    [] i = 3 + Len(cases) + 1 -> <<"}">>
                    [] OTHER -> <<" "," ","c","a","s","e"," ","o","b","j","e","c","t"," ">> \o to_pascal_case(cases[i - 3])
                                    \o <<" ","e","x","t","e","n","d","s"," ">> \o name)
                 \o <<"\n">>])

\* C20: an enum and the variant of the same name, documentation and case
\* names, none of whose cases has a payload, are rendered to the same text:
\* the variant annotation, a sealed marker trait, and one singleton case
\* object per case in declaration order.
C20_EnumIsPayloadlessVariant ==
    out.op = "render_enum" =>
        /\ out.res = out.as_variant
        /\ out.res = SealedWithSingletons(out.name, out.cases, out.docs)
        /\ Cardinality(Occurrences(out.res, <<"c","a","s","e"," ","o","b","j","e","c","t"," ">>)) = Len(out.cases)
        /\ Occurrences(out.res, <<"c","a","s","e"," ","c","l","a","s","s"," ">>) = {}

\* color with red, green and blue, undocumented
C20_Witness ==
    /\ out.op = "render_enum" /\ out.cur = Some(1)
    /\ out.as_variant =
           <<"@","s","c","a","l","a",".","s","c","a","l","a","j","s",".","w","i","t",".","a","n","n","o","t","a","t","i","o","n",".","W","i","t","V","a","r","i","a","n","t","\n","s","e","a","l","e","d"," ","t","r","a","i","t"," ","C","o","l","o","r","\n","o","b","j","e","c","t"," ","C","o","l","o","r"," ","{","\n"," "," ","c","a","s","e"," ","o","b","j","e","c","t"," ","R","e","d"," ","e","x","t","e","n","d","s"," ","C","o","l","o","r","\n"," "," ","c","a","s","e"," ","o","b","j","e","c","t"," ","G","r","e","e","n"," ","e","x","t","e","n","d","s"," ","C","o","l","o","r","\n"," "," ","c","a","s","e"," ","o","b","j","e","c","t"," ","B","l","u","e"," ","e","x","t","e","n","d","s"," ","C","o","l","o","r","\n","}","\n">>

\* The recorded call rendered a reference to a handle of a resource.
RenderedHandle ==
    /\ out.op = "render_type" /\ out.ty.tag = "id"
    /\ Types[out.ty.id].kind.tag = "handle"
    /\ Types[Types[out.ty.id].kind.id].kind.tag = "resource"

\* The handles of a resource, own and borrow
HandlesOf(resource_id) ==
    {h \in TypeIds : Types[h].kind.tag = "handle" /\ Types[h].kind.id = resource_id}

\* C21: a reference to a handle of a resource, own or borrow, is rendered to
\* the string that a direct reference to the resource's typedef is rendered
\* to under the same current interface (bare or qualified, or the same
\* failure for a resource without a name); the ownership mode does not
\* change the output.
C21_HandleAsResource ==
    RenderedHandle =>
        /\ out.res = render_type(out.cur, TId(Types[out.ty.id].kind.id))
        /\ \A h \in HandlesOf(Types[out.ty.id].kind.id) :
               render_type(out.cur, TId(h)) = out.res

\* borrow<counter> referenced from shapes: the path of counter
C21_Witness ==
    /\ RenderedHandle /\ out.cur = Some(1) /\ out.ty = TId(14)
    /\ Types[14].kind.mode = "borrow"
    /\ out.res = <<"c","o","m",".","e","x","a","m","p","l","e",".","t","e","s","t",".","r","e","s","o","u","r","c","e","s",".","c","o","u","n","t","e","r","s",".","C","o","u","n","t","e","r">>
    /\ render_type(out.cur, TId(12)) = out.res

\* The recorded call rendered the declaration of a variant, and returned.
RenderedVariant ==
    /\ out.op = "render_typedef" /\ Types[out.id].kind.tag = "variant"
    /\ out.res /= PANIC

\* The alternative of a case: a single-field case class around the payload,
\* or a case object without one, extending the marker trait
Alternative(cur, name, c) ==
    IF IsSome(c.ty)
    THEN <<" "," ","f","i","n","a","l"," ","c","a","s","e"," ","c","l","a","s","s"," ">> \o to_pascal_case(c.name) \o <<"(","v","a","l","u","e",":"," ">>
             \o render_type(cur, Unwrap(c.ty)) \o <<")"," ","e","x","t","e","n","d","s"," ">> \o name
    ELSE <<" "," ","c","a","s","e"," ","o","b","j","e","c","t"," ">> \o to_pascal_case(c.name) \o <<" ","e","x","t","e","n","d","s"," ">> \o name

\* The lines of a variant declaration: the documentation comment, the variant
\* annotation, the marker trait, and in its companion one alternative per
\* case in declaration order
VariantLines(cur, name, cases, docs) ==
    Lines(format_docs(docs))
    \o <<component_variant, <<"s","e","a","l","e","d"," ","t","r","a","i","t"," ">> \o name, <<"o","b","j","e","c","t"," ">> \o name \o <<" ","{">>>>
    \o [i \in 1..Len(cases) |-> Alternative(cur, name, cases[i])]
    \o <<<<"}">>>>

\* C22: the declaration of a variant with n cases is one marker trait and
\* exactly n alternatives in declaration order: a case with a payload is
\* `final case class <Case>(value: <render_type(payload)>)`, a case without
\* one is `case object <Case>`, and each extends the marker trait.  A variant
\* without payloads, rendered next to its enum, has the same shape.
C22_OneAlternativePerCase ==
    /\ RenderedVariant =>
        /\ Lines(out.res)
             = VariantLines(out.cur, to_pascal_case(Unwrap(Types[out.id].name)),
                            Types[out.id].kind.cases, Types[out.id].docs)
        /\ Cardinality(Occurrences(out.res, <<"s","e","a","l","e","d"," ","t","r","a","i","t"," ">>)) = 1
        /\ Cardinality(Occurrences(out.res, <<" ","e","x","t","e","n","d","s"," ">>))
             = Len(Types[out.id].kind.cases)
    /\ out.op = "render_enum" =>
        Lines(out.as_variant)
            = VariantLines(out.cur, out.name, PayloadlessVariant(out.cases).cases, out.docs)

\* outcome of shapes: ok(string), err(string) and none
C22_Witness ==
    /\ RenderedVariant /\ out.id = 4 /\ out.cur = Some(1)
    /\ out.res = <<"@","s","c","a","l","a",".","s","c","a","l","a","j","s",".","w","i","t",".","a","n","n","o","t","a","t","i","o","n",".","W","i","t","V","a","r","i","a","n","t","\n","s","e","a","l","e","d"," ","t","r","a","i","t"," ","O","u","t","c","o","m","e","\n","o","b","j","e","c","t"," ","O","u","t","c","o","m","e"," ","{","\n"," "," ","f","i","n","a","l"," ","c","a","s","e"," ","c","l","a","s","s"," ","O","k","(","v","a","l","u","e",":"," ","S","t","r","i","n","g",")"," ","e","x","t","e","n","d","s"," ","O","u","t","c","o","m","e","\n"," "," ","f","i","n","a","l"," ","c","a","s","e"," ","c","l","a","s","s"," ","E","r","r","(","v","a","l","u","e",":"," ","S","t","r","i","n","g",")"," ","e","x","t","e","n","d","s"," ","O","u","t","c","o","m","e","\n"," "," ","c","a","s","e"," ","o","b","j","e","c","t"," ","N","o","n","e"," ","e","x","t","e","n","d","s"," ","O","u","t","c","o","m","e","\n","}","\n">>

\* The constructor parameter of a field: its name in camelCase, then its type
Parameter(cur, field) ==
    to_camel_case(field.name) \o <<":"," ">> \o render_type(cur, field.ty)

\* The lines of a record declaration: the documentation comment, the record
\* annotation, and one case class with a parameter per field in field order
RecordLines(cur, name, fields, docs) ==
    Lines(format_docs(docs))
    \o <<component_record,
         <<"f","i","n","a","l"," ","c","a","s","e"," ","c","l","a","s","s"," ">> \o name \o <<"(">>
             \o Join([i \in 1..Len(fields) |-> Parameter(cur, fields[i])], <<","," ">>)
             \o <<")">>>>

\* The recorded call rendered the declaration of a record of the schema, and
\* returned.
RenderedRecordTypedef ==
    /\ out.op = "render_typedef" /\ Types[out.id].kind.tag = "record"
    /\ out.res /= PANIC

\* C23: the declaration of a record with n fields is a single
\* record-annotated `final case class` with exactly n constructor
\* parameters in the schema's field order, the i-th being the camelCase name
\* of field i with the rendering of the type of field i.
C23_OneParameterPerField ==
    /\ out.op = "render_record" =>
        /\ Lines(out.res) = RecordLines(out.cur, out.name, out.fields, out.docs)
        /\ Cardinality(Occurrences(out.res, <<"f","i","n","a","l"," ","c","a","s","e"," ","c","l","a","s","s"," ">>)) = 1
        /\ Cardinality(Occurrences(out.res, component_record)) = 1
        /\ Cardinality(Occurrences(out.res, <<":"," ">>)) = Len(out.fields)
    /\ RenderedRecordTypedef =>
        Lines(out.res)
            = RecordLines(out.cur, to_pascal_case(Unwrap(Types[out.id].name)),
                          Types[out.id].kind.fields, Types[out.id].docs)

\* user-profile with four fields, rendered in the other shapes interface
C23_Witness ==
    /\ out.op = "render_record" /\ out.cur = Some(2) /\ out.docs = None
    /\ out.res = <<"@","s","c","a","l","a",".","s","c","a","l","a","j","s",".","w","i","t",".","a","n","n","o","t","a","t","i","o","n",".","W","i","t","R","e","c","o","r","d","\n","f","i","n","a","l"," ","c","a","s","e"," ","c","l","a","s","s"," ","U","s","e","r","P","r","o","f","i","l","e","(","f","i","r","s","t","N","a","m","e",":"," ","S","t","r","i","n","g",","," ",BQ,"t","y","p","e",BQ,":"," ","c","o","m",".","e","x","a","m","p","l","e",".","m","y","_","o","r","g",".","g","e","o","_","l","i","b",".","s","h","a","p","e","s",".","P","o","i","n","t",","," ","h","o","m","e","A","t",":"," ","P","o","i","n","t",","," ","a","g","e",":"," ","s","c","a","l","a",".","s","c","a","l","a","j","s",".","w","i","t",".","u","n","s","i","g","n","e","d",".","U","B","y","t","e",")","\n">>

\* The recorded call rendered the declaration of a named tuple, option,
\* result or list.
RenderedAlias ==
    /\ out.op = "render_typedef" /\ IsSome(Types[out.id].name)
    /\ Types[out.id].kind.tag \in {"tuple", "option", "result", "list"}

\* How the rendering of a reference to a typedef of kind k begins
ReferencePrefix(k) ==
    CASE k.tag = "tuple" -> <<"s","c","a","l","a",".","s","c","a","l","a","j","s",".","w","i","t",".","T","u","p","l","e">> \o Decimal(Len(k.types)) \o <<"[">>
      [] k.tag = "option" -> <<"j","a","v","a",".","u","t","i","l",".","O","p","t","i","o","n","a","l","[">>
      [] k.tag = "result" -> <<"s","c","a","l","a",".","s","c","a","l","a","j","s",".","w","i","t",".","R","e","s","u","l","t","[">>
      [] k.tag = "list" -> <<"A","r","r","a","y","[">>

\* C24: the declaration of a named tuple, option, result or list is exactly
\* `type <PascalName> = <X>`, X being the string that a reference to the same
\* typedef is rendered to under the same current interface: TupleN[...] with
\* N the number of elements, java.util.Optional[...], Result[ok, err] with
\* Unit for a missing side, Array[...].
C24_AliasOfReference ==
    RenderedAlias =>
        /\ out.res = Fmt(<<<<"t","y","p","e"," ">>, to_pascal_case(Unwrap(Types[out.id].name)), <<" ","="," ">>,
                           render_type(out.cur, TId(out.id))>>)
        /\ out.res /= PANIC =>
              /\ StartsWith(render_type(out.cur, TId(out.id)),
                            ReferencePrefix(Types[out.id].kind))
              /\ EndsWith(out.res, <<"]">>)
        /\ (Types[out.id].kind.tag = "result" /\ out.res /= PANIC) =>
              /\ ~IsSome(Types[out.id].kind.ok) =>
                     Occurrences(out.res, <<"R","e","s","u","l","t","[","U","n","i","t",","," ">>) /= {}
              /\ ~IsSome(Types[out.id].kind.err) => EndsWith(out.res, <<","," ","U","n","i","t","]">>)

\* move-result of shapes, a result without an error side
C24_Witness ==
    /\ RenderedAlias /\ out.id = 7 /\ out.cur = Some(1)
    /\ ~IsSome(Types[7].kind.err)
    /\ out.res = <<"t","y","p","e"," ","M","o","v","e","R","e","s","u","l","t"," ","="," ","s","c","a","l","a",".","s","c","a","l","a","j","s",".","w","i","t",".","R","e","s","u","l","t","[","P","o","i","n","t",","," ","U","n","i","t","]">>

\* A text with every a replaced by b
ReplaceAll(s, a, b) == [i \in 1..Len(s) |-> IF s[i] = a THEN b ELSE s[i]]

\* C25: the file path of an interface is its package path for the same
\* namespace and mode with every `.` replaced by `/`, then `/`, the
\* snake_case interface name and `.scala`; the file path of a world is its
\* package path with every `.` replaced by `/`, then `/package.scala`.
C25_FilePathOfPackagePath ==
    /\ out.op = "get_interface_file_path" =>
        /\ out.res = ReplaceAll(out.package_path, ".", "/") \o <<"/">>
                         \o HeckSnake(out.input.iface) \o <<".","s","c","a","l","a">>
        /\ Cardinality(Occurrences(out.res, <<".">>)) = 1
    /\ out.op = "get_world_file_path" =>
        /\ out.res = ReplaceAll(out.package_path, ".", "/") \o <<"/","p","a","c","k","a","g","e",".","s","c","a","l","a">>
        /\ Cardinality(Occurrences(out.res, <<".">>)) = 1

\* wasi:io/streams@0.2.0, exported
C25_Witness ==
    /\ out.op = "get_interface_file_path" /\ ~out.is_import
    /\ out.namespace = <<"w","a","s","i",":","i","o","/","s","t","r","e","a","m","s","@","0",".","2",".","0">>
    /\ out.package_path = <<"c","o","m",".","e","x","a","m","p","l","e",".","e","x","p","o","r","t","s",".","w","a","s","i",".","i","o">>
    /\ out.res = <<"c","o","m","/","e","x","a","m","p","l","e","/","e","x","p","o","r","t","s","/","w","a","s","i","/","i","o","/","s","t","r","e","a","m","s",".","s","c","a","l","a">>

\* The world file of a mode as render_world writes it on a context on which
\* no interface was rendered
WorldFileOfFreshContext(is_import) == render_world(None, is_import)

\* C26 as the specification implies it: the world-level text of a mode is the
\* same whichever interfaces were rendered on the context before, in whatever
\* order, none included; every world file pushed is therefore the text
\* rendered on a context on which no interface was rendered.
C26_WorldOutputIndependentOfHistory ==
    \A is_import \in BOOLEAN :
        \A text \in Pushed(get_world_file_path(World.name, is_import)) :
            /\ WorldFileOfFreshContext(is_import).tag = "some"
            /\ text = WorldFileOfFreshContext(is_import).text

\* The named types of other interfaces that an interface could refer to by a
\* path: their owner has a name and a package
PathTypesOutside(interface_id) ==
    {t \in TypeIds :
        /\ Types[t].kind.tag \in NamedKinds /\ IsSome(Types[t].name)
        /\ Types[t].owner.tag = "interface" /\ Types[t].owner.id /= interface_id
        /\ IsSome(Interfaces[Types[t].owner.id].name)
        /\ IsSome(Interfaces[Types[t].owner.id].package)}

\* The end of the path of type t: .<interface>.<Type>
PathEnd(t) ==
    Concat(<<<<".">>, to_snake_case(Unwrap(Interfaces[Types[t].owner.id].name)),
             <<".">>, to_pascal_case(Unwrap(Types[t].name))>>)

\* The package in which the declarations of the owner of t are emitted in a
\* mode
DeclaredPackage(t, is_import) ==
    get_package_path(InterfaceNamespace(Types[t].owner.id), is_import)

\* pkg stands in text just before position p
PrecededBy(text, p, pkg) ==
    p > Len(pkg) /\ SubSeq(text, p - Len(pkg), p - 1) = pkg

\* <pkg>.<interface>.<Type> stands at position p - Len(pkg) as a whole path
WholePathAt(text, p, pkg) ==
    /\ PrecededBy(text, p, pkg)
    /\ PrecededBy(text, p - Len(pkg), <<" ">>) \/ PrecededBy(text, p - Len(pkg), <<"[">>)

\* C27 as the specification implies it: in the text of an interface, rendered
\* for import or for export, every path to a type of another interface is the
\* package in which the declarations of an interface of that name are emitted
\* in the same mode, then the snake_case interface name and the PascalCase
\* type name.
C27_PathPointsAtDeclaration ==
    (out.op = "render_interface" /\ out.res /= PANIC) =>
        \A t \in PathTypesOutside(out.id) :
            \A p \in Occurrences(out.res, PathEnd(t)) :
                \E u \in PathTypesOutside(out.id) :
                    /\ PathEnd(u) = PathEnd(t)
                    /\ WholePathAt(out.res, p, DeclaredPackage(u, out.is_import))

\* The file path given to a named interface handled in a mode
AssignedPath(id, is_import) == RenderedInterfaces[id][is_import].file_path

NamedAmong(ids) == {i \in ids : IsSome(Interfaces[i].name)}

\* C28 as the specification implies it: within one run, two distinct
\* interfaces handled in the same mode, both imported or both exported, are
\* never given the same file path.
C28_DistinctFilePaths ==
    /\ \A i, j \in NamedAmong(imports) :
           i /= j => AssignedPath(i, TRUE) /= AssignedPath(j, TRUE)
    /\ \A i, j \in NamedAmong(exports) :
           i /= j => AssignedPath(i, FALSE) /= AssignedPath(j, FALSE)

\* The text of the companion object: from the line that opens it
CompanionPart(text, scala_name) ==
    SubSeq(text, FirstOf(Occurrences(text, <<"}","\n","o","b","j","e","c","t"," ">> \o scala_name \o <<" ","{","\n">>)) + 2,
           Len(text))

\* The members of a trait or an object: its lines that declare a def
IsDefLine(l) == StartsWith(l, <<" "," ","d","e","f"," ">>)

DefLines(text) == SelectSeq(Lines(text), IsDefLine)

\* The name and the parameter list of a member, and its name
Signature(l) == Split(SubSeq(l, 7, Len(l)), ")")[1] \o <<")">>

DefName(l) == Split(SubSeq(l, 7, Len(l)), "(")[1]

Signatures(text) == [i \in 1..Len(DefLines(text)) |-> Signature(DefLines(text)[i])]

DefNames(text) == [i \in 1..Len(DefLines(text)) |-> DefName(DefLines(text)[i])]

NoTwoEqual(seq) == \A i, j \in 1..Len(seq) : i /= j => seq[i] /= seq[j]

\* The functions of the resource's interface that are its own
OwnFunctions(resource_id) ==
    SelectSeq(OwnerFunctions(Types[resource_id].owner),
              LAMBDA f : f.kind.tag /= "freestanding" /\ f.kind.id = resource_id)

\* C29: in the text of an imported resource no two members of the trait have
\* the same name and parameter list, and no two members of the companion
\* object do (here: no two have the same name); the trait has one member per
\* method and the destructor close(), the companion one per constructor and
\* static function, and the constructor alone is named apply.
C29_NoClashingMembers ==
    RenderedResourceText =>
        /\ NoTwoEqual(Signatures(TraitPart(out.res, RenderedScalaName)))
        /\ NoTwoEqual(DefNames(TraitPart(out.res, RenderedScalaName)))
        /\ NoTwoEqual(Signatures(CompanionPart(out.res, RenderedScalaName)))
        /\ NoTwoEqual(DefNames(CompanionPart(out.res, RenderedScalaName)))
        /\ Len(DefLines(TraitPart(out.res, RenderedScalaName)))
             = Len(MethodsOf(out.id)) + 1
        /\ Len(DefLines(CompanionPart(out.res, RenderedScalaName)))
             = Len(OwnFunctions(out.id)) - Len(MethodsOf(out.id))
        /\ Cardinality(Occurrences(out.res, <<"d","e","f"," ","a","p","p","l","y","(">>))
             = Len(SelectSeq(OwnFunctions(out.id), LAMBDA f : f.kind.tag = "constructor"))

\* store, which has a method close, a static function apply and a constructor
C29_Witness ==
    /\ RenderedResourceText /\ out.id = 32
    /\ DefNames(TraitPart(out.res, RenderedScalaName))
         = <<<<"m","e","t","h","o","d","S","t","o","r","e","G","e","t">>, <<"m","e","t","h","o","d","S","t","o","r","e","C","l","o","s","e">>, <<"c","l","o","s","e">>>>
    /\ Signatures(CompanionPart(out.res, RenderedScalaName))
         = <<<<"s","t","a","t","i","c","S","t","o","r","e","O","p","e","n","(","n","a","m","e",":"," ","S","t","r","i","n","g",")">>, <<"s","t","a","t","i","c","S","t","o","r","e","A","p","p","l","y","(","n","a","m","e",":"," ","S","t","r","i","n","g",")">>,
             <<"a","p","p","l","y","(","n","a","m","e",":"," ","S","t","r","i","n","g",")">>>>

\* Every Method, Constructor and Static function of the interface refers to a
\* Resource typedef listed in the interface's types
ResourceFunctionsListed(interface_id) ==
    \A i \in 1..Len(Interfaces[interface_id].functions) :
        IsResourceFunction(Interfaces[interface_id].functions[i]) =>
            /\ Interfaces[interface_id].functions[i].kind.id
                   \in Range(Interfaces[interface_id].types)
            /\ IsResourceType(Interfaces[interface_id].functions[i].kind.id)

\* The annotation that marks a function's rendering
AnnotationOf(f, namespace) ==
    IF f.kind.tag = "method" THEN component_resource_method(f.name)
    ELSE IF f.kind.tag = "static" THEN component_resource_static_method(f.name)
    ELSE IF f.kind.tag = "constructor" THEN component_resource_constructor
    ELSE component_import(namespace, f.name)

\* In the text of an interface: where the trait of a resource opens, where
\* its companion object opens and closes, and where the Functions section
\* starts (the end of the text when there is none)
TraitOpens(text, resource_id) ==
    FirstOf(Occurrences(text, <<"\n"," "," ","t","r","a","i","t"," ">>
                              \o to_pascal_case(Unwrap(Types[resource_id].name))
                              \o <<" ","{","\n">>))

CompanionOpens(text, resource_id) ==
    FirstOf(Occurrences(text, <<"\n"," "," ","o","b","j","e","c","t"," ">>
                              \o to_pascal_case(Unwrap(Types[resource_id].name))
                              \o <<" ","{","\n">>))

CompanionCloses(text, resource_id) ==
    FirstOf({p \in Occurrences(text, <<"\n"," "," ","}","\n">>) :
                p > CompanionOpens(text, resource_id)})

FunctionsStart(text) ==
    IF Occurrences(text, <<"\n"," "," ","/","/"," ","F","u","n","c","t","i","o","n","s","\n">>) = {} THEN Len(text) + 1
    ELSE FirstOf(Occurrences(text, <<"\n"," "," ","/","/"," ","F","u","n","c","t","i","o","n","s","\n">>))

\* The positions of a function's annotation in its own place: the Functions
\* section, the trait of its resource, or the companion of its resource
InOwnPlace(text, f, namespace) ==
    {p \in Occurrences(text, AnnotationOf(f, namespace)) :
        IF f.kind.tag = "freestanding" THEN p > FunctionsStart(text)
        ELSE IF f.kind.tag = "method"
        THEN TraitOpens(text, f.kind.id) < p /\ p < CompanionOpens(text, f.kind.id)
        ELSE CompanionOpens(text, f.kind.id) < p /\ p < CompanionCloses(text, f.kind.id)}

Constructors(fns) == SelectSeq(fns, LAMBDA f : f.kind.tag = "constructor")

\* The recorded call returned the text of an imported interface whose resource
\* functions refer to resources it lists (a renderer returns a complete
\* text or aborts)
RenderedListedImport ==
    /\ out.op = "render_interface" /\ out.is_import
    /\ out.res /= PANIC
    /\ ResourceFunctionsListed(out.id)

\* C30: in the text of an imported interface whose Method, Constructor and
\* Static functions refer to Resource typedefs listed in its types, every
\* function is rendered exactly once and in its own place: a freestanding
\* function in the Functions section, a method in the trait of its resource,
\* a constructor or static function in the companion of its resource; the
\* text holds no other rendering of it.
C30_EachFunctionOnceInPlace ==
    RenderedListedImport =>
        /\ \A i \in 1..Len(Interfaces[out.id].functions) :
              /\ Cardinality(InOwnPlace(out.res, Interfaces[out.id].functions[i],
                                        InterfaceNamespace(out.id))) = 1
              /\ Interfaces[out.id].functions[i].kind.tag /= "constructor" =>
                    Cardinality(Occurrences(out.res,
                        AnnotationOf(Interfaces[out.id].functions[i],
                                     InterfaceNamespace(out.id)))) = 1
        /\ Cardinality(Occurrences(out.res, component_resource_constructor))
              = Len(Constructors(Interfaces[out.id].functions))

\* blobs imported: two resources, of which store has methods, static
\* functions and a constructor, and the freestanding function count
C30_Witness ==
    /\ RenderedListedImport /\ out.id = 10
    /\ Len(Interfaces[out.id].functions) = 6
    /\ TraitOpens(out.res, 31) < TraitOpens(out.res, 32)
    /\ Occurrences(out.res, component_resource_method(<<"[","m","e","t","h","o","d","]","s","t","o","r","e",".","g","e","t">>)) /= {}
    /\ Occurrences(out.res, component_import(InterfaceNamespace(10), <<"c","o","u","n","t">>)) /= {}

====
